---- MODULE Spec2Model ----
(***************************************************************************)
(* State-machine model of the OAuth bridging core of the freee ChatGPT     *)
(* Apps SDK server: dynamic client registration, the authorize/callback    *)
(* redirect pair, the token endpoint (authorization_code and refresh_token *)
(* grants), POST /mcp with the FreeeClient's refresh of the upstream       *)
(* token, PKCE, and the three SQLite tables they read and write.           *)
(*                                                                         *)
(* Node runs every handler to its next `await` without interleaving, and   *)
(* better-sqlite3 statements are synchronous, so one action of the model   *)
(* is one run of a handler between two suspension points.                  *)
(*                                                                         *)
(* JavaScript strings are TLA+ strings.  undefined, null and "" are all    *)
(* written "": the handlers only ever test such values for truthiness      *)
(* (`!x`, `x || y`), which cannot tell them apart.                         *)
(***************************************************************************)
EXTENDS Integers, Sequences, FiniteSets, TLC

VARIABLES
    now,           \* Math.floor(Date.now() / 1000)
    ticks,         \* number of clock advances taken so far
    oauth_clients, \* table oauth_clients, in insertion order
    auth_codes,    \* table auth_codes, in insertion order
    tokens,        \* table tokens, in insertion order
    reqs,          \* the handlers that went past their first await
    freeeSeq,      \* number of token pairs the upstream provider has issued
    resp,          \* the HTTP response sent last by a handler run
    pkce           \* a call of verifyCodeChallenge: its arguments and result

vars ==
    <<now, ticks, oauth_clients, auth_codes, tokens, reqs, freeeSeq, resp,
      pkce>>

-----------------------------------------------------------------------------
(* Bounds of the model *)

MaxClients == 1
MaxSessions == 1
MaxReqs == 3
MaxTicks == 1

(* Program constants *)

CODE_EXPIRY_SECONDS == 600
expiresIn == 3600
S256Length == 43

-----------------------------------------------------------------------------
(* Strings *)

Range(s) == {s[i] : i \in DOMAIN s}

Chars(s) == {SubSeq(s, i, i) : i \in 1..Len(s)}

Upper == Chars("ABCDEFGHIJKLMNOPQRSTUVWXYZ")
Lower == Chars("abcdefghijklmnopqrstuvwxyz")
Digit == Chars("0123456789")

\* String.prototype.includes
Includes(s, t) ==
    \E i \in 1..(Len(s) - Len(t) + 1) : SubSeq(s, i, i + Len(t) - 1) = t

\* String.prototype.indexOf, 1-based; 0 when t does not occur in s
IndexOf(s, t) ==
    IF Includes(s, t)
    THEN CHOOSE i \in 1..(Len(s) - Len(t) + 1) :
            /\ SubSeq(s, i, i + Len(t) - 1) = t
            /\ \A j \in 1..(i - 1) : SubSeq(s, j, j + Len(t) - 1) # t
    ELSE 0

\* the n-th value drawn from a random source: distinct draws never collide
Numeral == <<"1", "2", "3", "4", "5", "6", "7", "8", "9">>
Fresh(prefix, n) == prefix \o Numeral[n]

-----------------------------------------------------------------------------
(* new URL(uri): the protocol and hostname of an absolute                  *)
(* scheme://host[:port][/path] URI; anything else throws.                  *)

\* the URIs of the model
HttpsUri == "https://x.example/cb"
OtherUri == "https://x.example/cb/other"
LoopbackUri == "http://localhost:3000/cb"
PlainHttpUri == "http://evil.example/cb"
LocalhostLookalikeUri == "http://localhost.evil.example/cb"
MalformedUri == "not a uri"
TrailingSlashUri == "https://x.example/cb/"
QueryUri == "https://x.example/cb?x=1"

Uris == {HttpsUri, OtherUri, LoopbackUri, PlainHttpUri, LocalhostLookalikeUri,
         MalformedUri, TrailingSlashUri, QueryUri}

URLFailure == [ok |-> FALSE, protocol |-> "", hostname |-> ""]

URLParse(uri) ==
    LET c == IndexOf(uri, ":")
    IN  IF c < 2 \/ ~(Chars(SubSeq(uri, 1, c - 1)) \subseteq Lower)
        THEN URLFailure
        ELSE
          LET rest == SubSeq(uri, c + 1, Len(uri))
          IN  IF Len(rest) < 3 \/ SubSeq(rest, 1, 2) # "//"
              THEN URLFailure
              ELSE
                LET after == SubSeq(rest, 3, Len(rest))
                    slash == IndexOf(after, "/")
                    authority == IF slash = 0 THEN after
                                 ELSE SubSeq(after, 1, slash - 1)
                    colon == IndexOf(authority, ":")
                    host == IF colon = 0 THEN authority
                            ELSE SubSeq(authority, 1, colon - 1)
                IN  IF host = "" \/ Includes(host, " ")
                    THEN URLFailure
                    ELSE [ok |-> TRUE,
                          protocol |-> SubSeq(uri, 1, c),
                          hostname |-> host]

\* new URL(uri), parsed once for each URI of the model
URLs == [uri \in Uris |-> URLParse(uri)]
newURL(uri) == URLs[uri]

-----------------------------------------------------------------------------
(* PKCE *)

\* SHA-256 followed by base64url without padding, on the verifiers of the model
S256Table ==
    << <<"dBjftJeZ4CVP-mB92K27uhbUJU1p1r_wW1gFWFOEjXk",
         "E9Melhoa2OwvFrEMTJguCHaoeK1t8URWbuGJSstw-cM">>,
       <<"dBjftJeZ4CVP-mB92K27uhbUJU1p1r_wW1gFWFOEjXj",
         "8AuWQe2Sg66Pu1SExiKweDeww7b3MY2_Ktkgbbb2tA0">>,
       <<"E9Melhoa2OwvFrEMTJguCHaoeK1t8URWbuGJSstw-cM",
         "DSmbHrVIcI0EU05-BQxCe1bt-hXRNjejSEvdYbq_g4Q">>,
       <<"eBjftJeZ4CVP-mB92K27uhbUJU1p1r_wW1gFWFOEjXk",
         "yY_-xCJ4NSGiZNYuJJuDD8LjyeDew1IAjLpflLrhbcs">>,
       <<"dBjftJeZ4CVP-mB92K27uxbUJU1p1r_wW1gFWFOEjXk",
         "yCPOLJ04LNtlS7XUkR-DybxL0UjJAFrNe9arEKUjdlA">>,
       <<"dBjftJeZ4CVP-mB92K27uhbUJU1p1r_wW1gFWFOEjXK",
         "gMhFviSMvh4p6Dk0JJBqmff50a_bngH3n_i14zTH5Z4">> >>

Verifiers == {p[1] : p \in Range(S256Table)}
Verifier == S256Table[1][1]
OtherVerifier == S256Table[2][1]

computeS256Challenge(codeVerifier) ==
    (CHOOSE p \in Range(S256Table) : p[1] = codeVerifier)[2]

\* verification that compares the length of the recomputed challenge only
verifyCodeChallenge_LengthOnly(codeVerifier, codeChallenge, method) ==
    IF method = "plain" THEN Len(codeVerifier) = Len(codeChallenge)
    ELSE IF method = "S256"
         THEN Len(computeS256Challenge(codeVerifier)) = Len(codeChallenge)
         ELSE FALSE

\* verification that compares the first eight characters only
verifyCodeChallenge_Prefix(codeVerifier, codeChallenge, method) ==
    IF method = "plain"
    THEN SubSeq(codeVerifier, 1, 8) = SubSeq(codeChallenge, 1, 8)
    ELSE IF method = "S256"
         THEN SubSeq(computeS256Challenge(codeVerifier), 1, 8)
                 = SubSeq(codeChallenge, 1, 8)
         ELSE FALSE

verifyCodeChallenge(codeVerifier, codeChallenge, method) ==
    IF method = "plain" THEN codeVerifier = codeChallenge
    ELSE IF method = "S256"
         THEN computeS256Challenge(codeVerifier) = codeChallenge
         ELSE FALSE

isValidCodeVerifier(codeVerifier) ==
    IF Len(codeVerifier) < 43 \/ Len(codeVerifier) > 128
    THEN FALSE
    ELSE Chars(codeVerifier) \subseteq
            (Upper \cup Lower \cup Digit \cup {"-", ".", "_", "~"})

isValidCodeChallenge(codeChallenge, method) ==
    IF method = "S256"
    THEN IF Len(codeChallenge) # S256Length
         THEN FALSE
         ELSE Chars(codeChallenge) \subseteq
                 (Upper \cup Lower \cup Digit \cup {"-", "_"})
    ELSE IF method = "plain"
         THEN isValidCodeVerifier(codeChallenge)
         ELSE FALSE

\* a call of verifyCodeChallenge: pc is "call" before and "returned" after
NoCall ==
    [pc |-> "", codeVerifier |-> "", codeChallenge |-> "", method |-> "",
     result |-> FALSE]

VerifyCodeChallenge ==
    /\ pkce.pc = "call"
    /\ pkce' = [pkce EXCEPT
                   !.pc = "returned",
                   !.result = verifyCodeChallenge(pkce.codeVerifier,
                                  pkce.codeChallenge, pkce.method)]
    /\ UNCHANGED <<now, ticks, oauth_clients, auth_codes, tokens, reqs,
                   freeeSeq, resp>>

\* the code challenges of the model, and their format checked once for each
Challenge == computeS256Challenge(Verifier)
OtherChallenge == computeS256Challenge(OtherVerifier)
CodeChallenges == {Challenge, OtherChallenge, Verifier \o "+", "tooshort"}
CodeChallengeMethods == {"S256", "plain"}

ChallengeFormats ==
    [c \in CodeChallenges, m \in CodeChallengeMethods |->
        isValidCodeChallenge(c, m)]

-----------------------------------------------------------------------------
(* HTTP responses.  location is the target of a redirect and params the    *)
(* query parameters the handler set on it; handler is the index in reqs of *)
(* the suspended handler that sent the response, 0 for a handler that      *)
(* answered in the run the request arrived in; credential is the code or   *)
(* refresh token of the token request that is answered.                    *)

NoParams ==
    [code |-> "", state |-> "", error |-> "", error_description |-> "",
     response_type |-> "", client_id |-> "", redirect_uri |-> "",
     prompt |-> ""]

Json(endpoint, status, error, description) ==
    [endpoint |-> endpoint, status |-> status, error |-> error,
     error_description |-> description, location |-> "", params |-> NoParams,
     client_id |-> "", handler |-> 0, credential |-> ""]

Redirect(endpoint, location, params) ==
    [endpoint |-> endpoint, status |-> 302, error |-> "",
     error_description |-> "", location |-> location, params |-> params,
     client_id |-> "", handler |-> 0, credential |-> ""]

ServerError(endpoint) ==
    Json(endpoint, 500, "server_error", "An unexpected error occurred")

NoResponse == Json("", 0, "", "")

-----------------------------------------------------------------------------
(* Table oauth_clients and clientModel *)

NoClient ==
    [id |-> "", client_id |-> "", client_secret |-> "", redirect_uris |-> <<>>,
     grant_types |-> <<>>, response_types |-> <<>>, scope |-> "",
     created_at |-> 0]

\* clientModel.create: the row inserted as the n-th client
clientCreate(request, n, t) ==
    [id |-> Fresh("client-uuid-", n),
     client_id |-> Fresh("chatgpt_", n),
     client_secret |-> Fresh("secret", n),
     redirect_uris |-> request.redirect_uris,
     grant_types |-> request.grant_types,
     response_types |-> request.response_types,
     scope |-> IF request.scope = "" THEN "read write" ELSE request.scope,
     created_at |-> t]

\* clientModel.findByClientId: NoClient stands for null
findByClientId(table, clientId) ==
    IF \E i \in DOMAIN table : table[i].client_id = clientId
    THEN table[CHOOSE i \in DOMAIN table : table[i].client_id = clientId]
    ELSE NoClient

\* a check that accepts whatever begins with a registered redirect_uri
validateRedirectUri_Prefix(client, redirectUri) ==
    \E i \in DOMAIN client.redirect_uris :
        /\ Len(redirectUri) >= Len(client.redirect_uris[i])
        /\ SubSeq(redirectUri, 1, Len(client.redirect_uris[i]))
               = client.redirect_uris[i]

\* a check that accepts any redirect_uri for a registered client
validateRedirectUri_AnyUri(client, redirectUri) ==
    TRUE

\* clientModel.validateRedirectUri: Array.prototype.includes
validateRedirectUri(client, redirectUri) ==
    \E i \in DOMAIN client.redirect_uris : client.redirect_uris[i] = redirectUri

-----------------------------------------------------------------------------
(* POST /oauth/register.  A JSON member of the body is [t, v]: t is        *)
(* "undefined", "string" or "array" and v the array's items.               *)

Undefined == [t |-> "undefined", v |-> <<>>]
Array(items) == [t |-> "array", v |-> items]

\* the check on one redirect URI: "" passes it, else the error_description
redirectUriError(uri) ==
    LET url == newURL(uri)
    IN  IF ~url.ok THEN "Invalid redirect URI format"
        ELSE IF /\ url.protocol # "https:"
                /\ ~Includes(url.hostname, "localhost")
                /\ url.hostname # "127.0.0.1"
             THEN "Redirect URI must use HTTPS"
             ELSE ""

allowedGrantTypes == {"authorization_code", "refresh_token"}
allowedResponseTypes == {"code"}

\* the validation of the handler, in its order: the 400 response, or
\* NoResponse when the body passes
dcrValidate(body) ==
    LET uris == body.redirect_uris.v
        grantTypes == IF body.grant_types.t = "undefined"
                      THEN <<"authorization_code">> ELSE body.grant_types.v
        responseTypes == IF body.response_types.t = "undefined"
                         THEN <<"code">> ELSE body.response_types.v
    IN  IF body.redirect_uris.t # "array" \/ Len(uris) = 0
        THEN Json("register", 400, "invalid_client_metadata",
                  "redirect_uris is required and must be a non-empty array")
        ELSE IF \E i \in DOMAIN uris : redirectUriError(uris[i]) # ""
        THEN LET first == CHOOSE i \in DOMAIN uris :
                              /\ redirectUriError(uris[i]) # ""
                              /\ \A j \in 1..(i - 1) : redirectUriError(uris[j]) = ""
             IN  Json("register", 400, "invalid_redirect_uri",
                      redirectUriError(uris[first]))
        ELSE IF ~(Range(grantTypes) \subseteq allowedGrantTypes)
        THEN Json("register", 400, "invalid_client_metadata",
                  "Unsupported grant_type")
        ELSE IF ~(Range(responseTypes) \subseteq allowedResponseTypes)
        THEN Json("register", 400, "invalid_client_metadata",
                  "Unsupported response_type")
        ELSE NoResponse

Register(body) ==
    LET error == dcrValidate(body)
        client == clientCreate(
            [redirect_uris |-> body.redirect_uris.v,
             grant_types |-> IF body.grant_types.t = "undefined"
                             THEN <<"authorization_code">>
                             ELSE body.grant_types.v,
             response_types |-> IF body.response_types.t = "undefined"
                                THEN <<"code">> ELSE body.response_types.v,
             scope |-> body.scope],
            Len(oauth_clients) + 1, now)
    IN  /\ IF error # NoResponse
           THEN /\ resp' = error
                /\ UNCHANGED oauth_clients
           ELSE /\ Len(oauth_clients) < MaxClients
                /\ oauth_clients' = Append(oauth_clients, client)
                /\ resp' = [Json("register", 201, "", "")
                               EXCEPT !.client_id = client.client_id]
        /\ UNCHANGED <<pkce, now, ticks, auth_codes, tokens, reqs, freeeSeq>>

-----------------------------------------------------------------------------
(* Table auth_codes and authCodeModel *)

NoAuthCode ==
    [code |-> "", client_id |-> "", redirect_uri |-> "", scope |-> "",
     code_challenge |-> "", code_challenge_method |-> "", state |-> "",
     freee_code |-> "", user_id |-> "", company_id |-> "",
     created_at |-> 0, expires_at |-> 0, used |-> 0]

\* authCodeModel.create: the row inserted as the n-th session
authCodeCreate(request, n, t) ==
    [code |-> Fresh("code", n),
     client_id |-> request.client_id,
     redirect_uri |-> request.redirect_uri,
     scope |-> request.scope,
     code_challenge |-> request.code_challenge,
     code_challenge_method |-> IF request.code_challenge_method = ""
                               THEN "S256" ELSE request.code_challenge_method,
     state |-> request.state,
     freee_code |-> "",
     user_id |-> "",
     company_id |-> "",
     created_at |-> t,
     expires_at |-> t + CODE_EXPIRY_SECONDS,
     used |-> 0]

\* a lookup that returns the first session whatever the code
findByCode_AnyRow(table, code) ==
    IF Len(table) > 0 THEN table[1] ELSE NoAuthCode

\* authCodeModel.findByCode: NoAuthCode stands for null
findByCode(table, code) ==
    IF \E i \in DOMAIN table : table[i].code = code
    THEN table[CHOOSE i \in DOMAIN table : table[i].code = code]
    ELSE NoAuthCode

\* updateWithFreeeData whose UPDATE matches no row
updateWithFreeeData_NoRow(table, code, freeeCode, userId, companyId) ==
    table

\* authCodeModel.updateWithFreeeData
updateWithFreeeData(table, code, freeeCode, userId, companyId) ==
    [i \in DOMAIN table |->
        IF table[i].code = code
        THEN [table[i] EXCEPT !.freee_code = freeeCode, !.user_id = userId,
                              !.company_id = companyId]
        ELSE table[i]]

\* markAsUsed whose UPDATE matches no row
markAsUsed_NoRow(table, code) ==
    table

\* authCodeModel.markAsUsed
markAsUsed(table, code) ==
    [i \in DOMAIN table |->
        IF table[i].code = code THEN [table[i] EXCEPT !.used = 1] ELSE table[i]]

\* isValid that still accepts a code at the second it expires
authCodeIsValid_Inclusive(authCode, t) ==
    authCode.used = 0 /\ authCode.expires_at >= t

\* isValid without the test of the used flag
authCodeIsValid_IgnoresUsed(authCode, t) ==
    authCode.expires_at > t

\* authCodeModel.isValid
authCodeIsValid(authCode, t) ==
    authCode.used = 0 /\ authCode.expires_at > t

-----------------------------------------------------------------------------
(* GET /oauth/authorize and GET /oauth/callback *)

\* a redirect with the error parameters but without the state
redirectWithError_NoState(endpoint, redirectUri, error, errorDescription, state) ==
    IF redirectUri = ""
    THEN Json(endpoint, 400, error, errorDescription)
    ELSE IF ~newURL(redirectUri).ok
    THEN ServerError(endpoint)
    ELSE Redirect(endpoint, redirectUri,
                  [NoParams EXCEPT !.error = error,
                                   !.error_description = errorDescription])

\* redirectWithError: new URL(redirectUri) throws on a malformed URI and
\* the handler's catch answers 500
redirectWithError(endpoint, redirectUri, error, errorDescription, state) ==
    IF redirectUri = ""
    THEN Json(endpoint, 400, error, errorDescription)
    ELSE IF ~newURL(redirectUri).ok
    THEN ServerError(endpoint)
    ELSE Redirect(endpoint, redirectUri,
                  [NoParams EXCEPT !.state = state, !.error = error,
                                   !.error_description = errorDescription])

freeeAuthorizationEndpoint ==
    "https://accounts.secure.freee.co.jp/public_api/authorize"

\* config.freee.clientId and config.baseUrl
freeeClientId == "freee-app-id"
baseUrl == "http://localhost:2091"

\* an upstream URL that also passes on the state the client supplied
freeeAuthUrl_ClientState(authCode) ==
    [NoParams EXCEPT !.response_type = "code",
                     !.client_id = freeeClientId,
                     !.redirect_uri = baseUrl \o "/oauth/callback",
                     !.state = authCode.code \o authCode.state,
                     !.prompt = "select_company"]

\* the search parameters of the upstream authorization URL
freeeAuthUrl(authCode) ==
    [NoParams EXCEPT !.response_type = "code",
                     !.client_id = freeeClientId,
                     !.redirect_uri = baseUrl \o "/oauth/callback",
                     !.state = authCode.code,
                     !.prompt = "select_company"]

\* the response to a request the handler turns down before it creates a
\* session, in the order of its checks; NoResponse when the request passes
authorizeReject(query) ==
    LET codeChallengeMethod == IF query.code_challenge_method = ""
                               THEN "S256" ELSE query.code_challenge_method
        client == findByClientId(oauth_clients, query.client_id)
    IN  IF query.response_type # "code"
        THEN redirectWithError("authorize", query.redirect_uri,
                 "unsupported_response_type",
                 "Only code response_type is supported", query.state)
        ELSE IF query.client_id = ""
        THEN Json("authorize", 400, "invalid_request", "client_id is required")
        ELSE IF query.redirect_uri = ""
        THEN Json("authorize", 400, "invalid_request", "redirect_uri is required")
        ELSE IF query.code_challenge = ""
        THEN redirectWithError("authorize", query.redirect_uri,
                 "invalid_request", "code_challenge is required (PKCE)",
                 query.state)
        ELSE IF codeChallengeMethod # "S256"
        THEN redirectWithError("authorize", query.redirect_uri,
                 "invalid_request",
                 "Only S256 code_challenge_method is supported", query.state)
        ELSE IF ~ChallengeFormats[query.code_challenge, codeChallengeMethod]
        THEN redirectWithError("authorize", query.redirect_uri,
                 "invalid_request", "Invalid code_challenge format",
                 query.state)
        ELSE IF client = NoClient
        THEN Json("authorize", 400, "invalid_client", "Unknown client_id")
        ELSE IF ~validateRedirectUri(client, query.redirect_uri)
        THEN Json("authorize", 400, "invalid_request",
                  "redirect_uri does not match registered URIs")
        ELSE NoResponse

Authorize(query) ==
    LET rejected == authorizeReject(query)
        authCode == authCodeCreate(
            [client_id |-> query.client_id,
             redirect_uri |-> query.redirect_uri,
             scope |-> query.scope,
             code_challenge |-> query.code_challenge,
             code_challenge_method |-> "S256",
             state |-> query.state],
            Len(auth_codes) + 1, now)
    IN  /\ IF rejected # NoResponse
           THEN /\ resp' = rejected
                /\ UNCHANGED auth_codes
           ELSE /\ Len(auth_codes) < MaxSessions
                /\ auth_codes' = Append(auth_codes, authCode)
                /\ resp' = Redirect("authorize", freeeAuthorizationEndpoint,
                               freeeAuthUrl(authCode))
        /\ UNCHANGED <<pkce, now, ticks, oauth_clients, tokens, reqs, freeeSeq>>

Callback(query) ==
    LET authCode == findByCode(auth_codes, query.state)
    IN  /\ IF query.state = ""
           THEN /\ resp' = Json("callback", 400, "invalid_request",
                                "Missing state parameter")
                /\ UNCHANGED auth_codes
           ELSE IF authCode = NoAuthCode
           THEN /\ resp' = Json("callback", 400, "invalid_request",
                                "Invalid or expired state")
                /\ UNCHANGED auth_codes
           ELSE IF query.error # ""
           THEN /\ resp' = redirectWithError("callback", authCode.redirect_uri,
                               "access_denied",
                               IF query.error_description = ""
                               THEN "Authorization was denied"
                               ELSE query.error_description,
                               authCode.state)
                /\ UNCHANGED auth_codes
           ELSE IF query.code = ""
           THEN /\ resp' = redirectWithError("callback", authCode.redirect_uri,
                               "server_error",
                               "No authorization code received from freee",
                               authCode.state)
                /\ UNCHANGED auth_codes
           ELSE /\ auth_codes' = updateWithFreeeData(auth_codes, authCode.code,
                                                     query.code, "", "")
                /\ resp' = Redirect("callback", authCode.redirect_uri,
                               [NoParams EXCEPT !.code = authCode.code,
                                                !.state = authCode.state])
        /\ UNCHANGED <<pkce, now, ticks, oauth_clients, tokens, reqs, freeeSeq>>

-----------------------------------------------------------------------------
(* The clock *)

TickSteps == {CODE_EXPIRY_SECONDS}

Tick(d) ==
    /\ ticks < MaxTicks
    /\ now' = now + d
    /\ ticks' = ticks + 1
    /\ UNCHANGED <<pkce, oauth_clients, auth_codes, tokens, reqs, freeeSeq,
                   resp>>

-----------------------------------------------------------------------------
(* Table tokens and tokenModel *)

\* The compact JWS that SignJWT(...).sign(jwtSecretKey) returns is a
\* function of its claims and the fixed key: the token is its claims.
NoJwt ==
    [sub |-> "", client_id |-> "", scope |-> "", company_id |-> "",
     iat |-> 0, exp |-> 0]

SignJWT(sub, clientId, scope, companyId, t) ==
    [sub |-> sub, client_id |-> clientId, scope |-> scope,
     company_id |-> companyId, iat |-> t, exp |-> t + expiresIn]

NoToken ==
    [id |-> "", client_id |-> "", user_id |-> "", company_id |-> "",
     access_token |-> NoJwt, refresh_token |-> "",
     freee_access_token |-> "", freee_refresh_token |-> "",
     freee_token_expires_at |-> 0, scope |-> "",
     created_at |-> 0, expires_at |-> 0, revoked |-> 0]

\* tokenModel.create: the row inserted as the n-th token
tokenCreate(request, n, t) ==
    [id |-> Fresh("token-uuid-", n),
     client_id |-> request.client_id,
     user_id |-> request.user_id,
     company_id |-> request.company_id,
     access_token |-> request.access_token,
     refresh_token |-> Fresh("refresh", n),
     freee_access_token |-> request.freee_access_token,
     freee_refresh_token |-> request.freee_refresh_token,
     freee_token_expires_at |-> request.freee_token_expires_at,
     scope |-> request.scope,
     created_at |-> t,
     expires_at |-> t + request.expires_in,
     revoked |-> 0]

\* tokenModel.findByAccessToken: the first matching row; NoToken stands for null
findByAccessToken(table, accessToken) ==
    LET hit == {i \in DOMAIN table : /\ table[i].access_token = accessToken
                                     /\ table[i].revoked = 0}
    IN  IF hit = {} THEN NoToken
        ELSE table[CHOOSE i \in hit : \A j \in hit : i <= j]

\* a lookup by refresh token that also returns revoked rows
findByRefreshToken_Revoked(table, refreshToken) ==
    LET hit == {i \in DOMAIN table : table[i].refresh_token = refreshToken}
    IN  IF hit = {} THEN NoToken
        ELSE table[CHOOSE i \in hit : \A j \in hit : i <= j]

\* tokenModel.findByRefreshToken: the first matching row; NoToken stands for null
findByRefreshToken(table, refreshToken) ==
    LET hit == {i \in DOMAIN table : /\ table[i].refresh_token = refreshToken
                                     /\ table[i].revoked = 0}
    IN  IF hit = {} THEN NoToken
        ELSE table[CHOOSE i \in hit : \A j \in hit : i <= j]

\* revoke whose UPDATE matches no row
revoke_NoRow(table, id) ==
    table

\* tokenModel.revoke
revoke(table, id) ==
    [i \in DOMAIN table |->
        IF table[i].id = id THEN [table[i] EXCEPT !.revoked = 1] ELSE table[i]]

\* tokenModel.isValid
tokenIsValid(token, t) ==
    token.revoked = 0 /\ token.expires_at > t

-----------------------------------------------------------------------------
(* The upstream provider's token endpoint.  Whether it grants a request is *)
(* its own decision; the k-th pair it issues is new.                       *)

FreeeExpiresIn == {21600}

NoFreeeTokens ==
    [access_token |-> "", refresh_token |-> "", created_at |-> 0,
     expires_in |-> 0]

FreeeTokenResponse(k, t, e) ==
    [access_token |-> Fresh("freee-access", k),
     refresh_token |-> Fresh("freee-refresh", k),
     created_at |-> t,
     expires_in |-> e]

-----------------------------------------------------------------------------
(* POST /oauth/token *)

NoTokenResponse ==
    [status |-> 0, error |-> "", error_description |-> "",
     access_token |-> NoJwt, token_type |-> "", expires_in |-> 0,
     refresh_token |-> "", scope |-> ""]

\* sendError on a handler that has been suspended
TokenError(error, description) ==
    [NoTokenResponse EXCEPT !.status = 400, !.error = error,
                            !.error_description = description]

\* a success body that leaves the refresh token out
TokenSuccess_NoRefreshToken(accessToken, refreshToken, scope) ==
    [status |-> 200, error |-> "", error_description |-> "",
     access_token |-> accessToken, token_type |-> "Bearer",
     expires_in |-> expiresIn, refresh_token |-> "", scope |-> scope]

\* res.json(response)
TokenSuccess(accessToken, refreshToken, scope) ==
    [status |-> 200, error |-> "", error_description |-> "",
     access_token |-> accessToken, token_type |-> "Bearer",
     expires_in |-> expiresIn, refresh_token |-> refreshToken, scope |-> scope]

\* x || y on strings
Or(x, y) == IF x = "" THEN y ELSE x

\* what resp records of the response a suspended handler r sends
Sent(r, response) ==
    [Json("token", response.status, response.error, response.error_description)
        EXCEPT !.handler = r,
               !.credential = Or(reqs[r].body.code, reqs[r].body.refresh_token)]

\* the locals of a handler suspended at an await: pc names the await, and
\* sent counts the requests it has sent to the upstream token endpoint
Handler(grant, pc, body, clientId, authCode, existingToken) ==
    [grant |-> grant, pc |-> pc, body |-> body, clientId |-> clientId,
     authCode |-> authCode, existingToken |-> existingToken,
     freeeTokens |-> NoFreeeTokens, accessToken |-> NoJwt,
     sent |-> 1, response |-> NoTokenResponse]

\* the binding checks without the comparison of client_id
bindingError_RedirectOnly(authCode, clientId, redirectUri) ==
    IF authCode.redirect_uri # redirectUri
    THEN "redirect_uri does not match"
    ELSE ""

\* the binding checks without the comparison of redirect_uri
bindingError_ClientOnly(authCode, clientId, redirectUri) ==
    IF authCode.client_id # clientId
    THEN "Authorization code was not issued to this client"
    ELSE ""

\* the checks that bind a code to its client and redirect_uri: "" when both
\* match, else the error_description
bindingError(authCode, clientId, redirectUri) ==
    IF authCode.client_id # clientId
    THEN "Authorization code was not issued to this client"
    ELSE IF authCode.redirect_uri # redirectUri
    THEN "redirect_uri does not match"
    ELSE ""

\* handleAuthorizationCodeGrant up to `await exchangeCodeForTokens`; resp2,
\* auth_codes2 and reqs2 are resp, auth_codes and reqs as the handler
\* leaves them
handleAuthorizationCodeGrant(body, clientId, resp2, auth_codes2, reqs2) ==
    LET authCode == findByCode(auth_codes, body.code)
        error(e, d) == /\ resp2 = [Json("token", 400, e, d)
                                      EXCEPT !.credential = body.code]
                       /\ auth_codes2 = auth_codes
                       /\ reqs2 = reqs
    IN  IF body.code = ""
        THEN error("invalid_request", "code is required")
        ELSE IF body.redirect_uri = ""
        THEN error("invalid_request", "redirect_uri is required")
        ELSE IF body.code_verifier = ""
        THEN error("invalid_request", "code_verifier is required (PKCE)")
        ELSE IF clientId = ""
        THEN error("invalid_request", "client_id is required")
        ELSE IF authCode = NoAuthCode
        THEN error("invalid_grant", "Invalid or expired authorization code")
        ELSE IF ~authCodeIsValid(authCode, now)
        THEN error("invalid_grant",
                   "Authorization code has expired or already been used")
        ELSE IF bindingError(authCode, clientId, body.redirect_uri) # ""
        THEN error("invalid_grant",
                   bindingError(authCode, clientId, body.redirect_uri))
        ELSE IF ~verifyCodeChallenge(body.code_verifier, authCode.code_challenge,
                                     authCode.code_challenge_method)
        THEN error("invalid_grant", "Invalid code_verifier")
        ELSE /\ auth_codes2 = markAsUsed(auth_codes, authCode.code)
             /\ IF authCode.freee_code = ""
                THEN /\ resp2 = [Json("token", 400, "invalid_grant",
                                      "No freee authorization code available")
                                    EXCEPT !.credential = body.code]
                     /\ reqs2 = reqs
                ELSE /\ Len(reqs) < MaxReqs
                     /\ reqs2 = Append(reqs,
                            Handler("authorization_code", "exchange", body,
                                    clientId, authCode, NoToken))
                     /\ resp2 = resp

\* handleRefreshTokenGrant up to `await refreshAccessToken`
handleRefreshTokenGrant(body, clientId, resp2, auth_codes2, reqs2) ==
    LET existingToken == findByRefreshToken(tokens, body.refresh_token)
        error(e, d) == /\ resp2 = [Json("token", 400, e, d)
                                      EXCEPT !.credential = body.refresh_token]
                       /\ reqs2 = reqs
    IN  /\ auth_codes2 = auth_codes
        /\ IF body.refresh_token = ""
           THEN error("invalid_request", "refresh_token is required")
           ELSE IF clientId = ""
           THEN error("invalid_request", "client_id is required")
           ELSE IF existingToken = NoToken
           THEN error("invalid_grant", "Invalid refresh token")
           ELSE IF existingToken.client_id # clientId
           THEN error("invalid_grant",
                      "Refresh token was not issued to this client")
           ELSE IF existingToken.freee_refresh_token = ""
           THEN error("invalid_grant", "No freee refresh token available")
           ELSE /\ Len(reqs) < MaxReqs
                /\ reqs2 = Append(reqs,
                       Handler("refresh_token", "refresh", body, clientId,
                               NoAuthCode, existingToken))
                /\ resp2 = resp

\* the route of POST /oauth/token from the request to the first await of its
\* handler, or to the response
tokenRouter(body, basic, resp2, auth_codes2, reqs2) ==
    LET clientId == Or(body.client_id, basic.client_id)
    IN  IF body.grant_type = ""
        THEN /\ resp2 = Json("token", 400, "invalid_request",
                             "grant_type is required")
             /\ auth_codes2 = auth_codes
             /\ reqs2 = reqs
        ELSE IF body.grant_type = "authorization_code"
        THEN handleAuthorizationCodeGrant(body, clientId, resp2, auth_codes2,
                                          reqs2)
        ELSE IF body.grant_type = "refresh_token"
        THEN handleRefreshTokenGrant(body, clientId, resp2, auth_codes2, reqs2)
        ELSE /\ resp2 = Json("token", 400, "unsupported_grant_type",
                             "Unsupported grant_type")
             /\ auth_codes2 = auth_codes
             /\ reqs2 = reqs

\* a route that authenticates the client before it dispatches
Token_Authenticated(body, basic) ==
    LET clientId == Or(body.client_id, basic.client_id)
        clientSecret == Or(body.client_secret, basic.client_secret)
        client == findByClientId(oauth_clients, clientId)
    IN  /\ IF client # NoClient /\ client.client_secret # clientSecret
           THEN /\ resp' = Json("token", 401, "invalid_client",
                                "Client authentication failed")
                /\ UNCHANGED <<auth_codes, reqs>>
           ELSE tokenRouter(body, basic, resp', auth_codes', reqs')
        /\ UNCHANGED <<pkce, now, ticks, oauth_clients, tokens, freeeSeq>>

\* the router: a request arrives and runs to its first await or its response
Token(body, basic) ==
    /\ tokenRouter(body, basic, resp', auth_codes', reqs')
    /\ UNCHANGED <<pkce, now, ticks, oauth_clients, tokens, freeeSeq>>

\* the message of the Error exchangeCodeForTokens and refreshAccessToken
\* throw on an answer that is not ok, made of the upstream's error body
FreeeErrors ==
    {[error |-> "invalid_grant", error_description |-> "code expired"],
     [error |-> "invalid_client", error_description |-> ""]}

thrown(what, data) ==
    "freee token " \o what \o " failed: " \o data.error \o " - "
        \o data.error_description

\* a catch that passes the thrown message on to the client
exchangeCatch_Message(message) ==
    TokenError("invalid_grant", message)

\* the catch around `await exchangeCodeForTokens`
exchangeCatch(message) ==
    TokenError("invalid_grant",
               "Failed to exchange authorization code with freee")

\* a handler that gives the code back when the upstream exchange has failed
ExchangeReply_Rollback(r, ok, e) ==
    LET h == reqs[r]
        failure == TokenError("invalid_grant",
                       "Failed to exchange authorization code with freee")
    IN  /\ h.pc = "exchange"
        /\ ~ok
        /\ reqs' = [reqs EXCEPT ![r] =
               [h EXCEPT !.pc = "done", !.response = failure]]
        /\ resp' = Sent(r, failure)
        /\ auth_codes' = [i \in DOMAIN auth_codes |->
               IF auth_codes[i].code = h.authCode.code
               THEN [auth_codes[i] EXCEPT !.used = 0] ELSE auth_codes[i]]
        /\ UNCHANGED <<pkce, now, ticks, oauth_clients, tokens, freeeSeq>>

\* a handler whose catch lets it go on to the signer after a failed exchange
ExchangeReply_Swallow(r, ok, e) ==
    LET h == reqs[r]
    IN  /\ h.pc = "exchange"
        /\ ~ok
        /\ reqs' = [reqs EXCEPT ![r] =
               [h EXCEPT !.pc = "sign",
                         !.accessToken =
                             SignJWT(Or(h.authCode.user_id, "user"), h.clientId,
                                     Or(h.authCode.scope, "read write"),
                                     h.authCode.company_id, now)]]
        /\ UNCHANGED <<pkce, now, ticks, oauth_clients, auth_codes, tokens,
                       freeeSeq, resp>>

\* handleAuthorizationCodeGrant from the upstream's answer to `await ...sign()`
ExchangeReply(r, ok, e) ==
    LET h == reqs[r]
        freeeTokens == FreeeTokenResponse(freeeSeq + 1, now, e)
    IN  /\ h.pc = "exchange"
        /\ IF ok
           THEN /\ reqs' = [reqs EXCEPT ![r] =
                      [h EXCEPT !.pc = "sign",
                                !.freeeTokens = freeeTokens,
                                !.accessToken =
                                    SignJWT(Or(h.authCode.user_id, "user"),
                                            h.clientId,
                                            Or(h.authCode.scope, "read write"),
                                            h.authCode.company_id, now)]]
                /\ freeeSeq' = freeeSeq + 1
                /\ UNCHANGED resp
           ELSE /\ \E data \in FreeeErrors :
                      LET failure == exchangeCatch(thrown("exchange", data))
                      IN  /\ reqs' = [reqs EXCEPT ![r] =
                                 [h EXCEPT !.pc = "done",
                                           !.response = failure]]
                          /\ resp' = Sent(r, failure)
                /\ UNCHANGED freeeSeq
        /\ UNCHANGED <<pkce, now, ticks, oauth_clients, auth_codes, tokens>>

\* handleAuthorizationCodeGrant from the signed JWT to its response
ExchangeSigned(r) ==
    LET h == reqs[r]
        token == tokenCreate(
            [client_id |-> h.clientId,
             user_id |-> h.authCode.user_id,
             company_id |-> h.authCode.company_id,
             access_token |-> h.accessToken,
             freee_access_token |-> h.freeeTokens.access_token,
             freee_refresh_token |-> h.freeeTokens.refresh_token,
             freee_token_expires_at |->
                 h.freeeTokens.created_at + h.freeeTokens.expires_in,
             scope |-> h.authCode.scope,
             expires_in |-> expiresIn],
            Len(tokens) + 1, now)
        success == TokenSuccess(h.accessToken, token.refresh_token,
                                h.authCode.scope)
    IN  /\ h.grant = "authorization_code"
        /\ h.pc = "sign"
        /\ tokens' = Append(tokens, token)
        /\ reqs' = [reqs EXCEPT ![r] =
               [h EXCEPT !.pc = "done", !.response = success]]
        /\ resp' = Sent(r, success)
        /\ UNCHANGED <<pkce, now, ticks, oauth_clients, auth_codes, freeeSeq>>

\* the signer throws: the promise of the handler rejects.  The router has
\* returned that promise without awaiting it, so its try has been left and
\* its catch does not run.  An Express that forwards the rejection reaches
\* the error middleware of the app, which answers 500; one that does not
\* leaves the request without a response.
SignRejected(r, forwarded) ==
    LET h == reqs[r]
        failure == [NoTokenResponse EXCEPT
                      !.status = 500, !.error = "server_error",
                      !.error_description = "An unexpected error occurred"]
    IN  /\ h.grant \in {"authorization_code", "refresh_token"}
        /\ h.pc = "sign"
        /\ IF forwarded
           THEN /\ reqs' = [reqs EXCEPT ![r] =
                      [h EXCEPT !.pc = "done", !.response = failure]]
                /\ resp' = Sent(r, failure)
           ELSE /\ reqs' = [reqs EXCEPT ![r] = [h EXCEPT !.pc = "done"]]
                /\ UNCHANGED resp
        /\ UNCHANGED <<pkce, now, ticks, oauth_clients, auth_codes, tokens,
                       freeeSeq>>

\* handleRefreshTokenGrant from the upstream's answer to `await ...sign()`
RefreshReply(r, ok, e) ==
    LET h == reqs[r]
        freeeTokens == FreeeTokenResponse(freeeSeq + 1, now, e)
        failure == TokenError("invalid_grant", "Failed to refresh freee token")
    IN  /\ h.pc = "refresh"
        /\ IF ok
           THEN /\ reqs' = [reqs EXCEPT ![r] =
                      [h EXCEPT !.pc = "sign",
                                !.freeeTokens = freeeTokens,
                                !.accessToken =
                                    SignJWT(Or(h.existingToken.user_id, "user"),
                                            h.clientId,
                                            Or(h.existingToken.scope, "read write"),
                                            h.existingToken.company_id, now)]]
                /\ freeeSeq' = freeeSeq + 1
                /\ UNCHANGED <<tokens, resp>>
           ELSE /\ tokens' = revoke(tokens, h.existingToken.id)
                /\ reqs' = [reqs EXCEPT ![r] =
                      [h EXCEPT !.pc = "done", !.response = failure]]
                /\ resp' = Sent(r, failure)
                /\ UNCHANGED freeeSeq
        /\ UNCHANGED <<pkce, now, ticks, oauth_clients, auth_codes>>

\* a handler that stores the predecessor's upstream pair on the successor
RefreshSigned_OldCredentials(r) ==
    LET h == reqs[r]
        newToken == tokenCreate(
            [client_id |-> h.clientId,
             user_id |-> h.existingToken.user_id,
             company_id |-> h.existingToken.company_id,
             access_token |-> h.accessToken,
             freee_access_token |-> h.existingToken.freee_access_token,
             freee_refresh_token |-> h.existingToken.freee_refresh_token,
             freee_token_expires_at |->
                 h.existingToken.freee_token_expires_at,
             scope |-> h.existingToken.scope,
             expires_in |-> expiresIn],
            Len(tokens) + 1, now)
        success == TokenSuccess(h.accessToken, newToken.refresh_token,
                                h.existingToken.scope)
    IN  /\ h.grant = "refresh_token"
        /\ h.pc = "sign"
        /\ tokens' = Append(revoke(tokens, h.existingToken.id), newToken)
        /\ reqs' = [reqs EXCEPT ![r] =
               [h EXCEPT !.pc = "done", !.response = success]]
        /\ resp' = Sent(r, success)
        /\ UNCHANGED <<pkce, now, ticks, oauth_clients, auth_codes, freeeSeq>>

\* handleRefreshTokenGrant from the signed JWT to its response
RefreshSigned(r) ==
    LET h == reqs[r]
        newToken == tokenCreate(
            [client_id |-> h.clientId,
             user_id |-> h.existingToken.user_id,
             company_id |-> h.existingToken.company_id,
             access_token |-> h.accessToken,
             freee_access_token |-> h.freeeTokens.access_token,
             freee_refresh_token |-> h.freeeTokens.refresh_token,
             freee_token_expires_at |->
                 h.freeeTokens.created_at + h.freeeTokens.expires_in,
             scope |-> h.existingToken.scope,
             expires_in |-> expiresIn],
            Len(tokens) + 1, now)
        success == TokenSuccess(h.accessToken, newToken.refresh_token,
                                h.existingToken.scope)
    IN  /\ h.grant = "refresh_token"
        /\ h.pc = "sign"
        /\ tokens' = Append(revoke(tokens, h.existingToken.id), newToken)
        /\ reqs' = [reqs EXCEPT ![r] =
               [h EXCEPT !.pc = "done", !.response = success]]
        /\ resp' = Sent(r, success)
        /\ UNCHANGED <<pkce, now, ticks, oauth_clients, auth_codes, freeeSeq>>

-----------------------------------------------------------------------------
(* POST /mcp and FreeeClient.  A bearer token is the claims of a JWT and   *)
(* the key it was signed with.  A handler of /mcp kept in reqs has grant   *)
(* "mcp"; its existingToken is the FreeeClient's this.token, its           *)
(* accessToken the JWT it was called with, and authorization the bearer    *)
(* of the request it has sent to the upstream API.                         *)

jwtSecretKey == "jwt-secret"

NoBearer == [jwt |-> NoJwt, key |-> ""]
Bearer(jwt, key) == [jwt |-> jwt, key |-> key]

\* jwtVerify: the signature is by our key and exp has not passed
jwtVerify(bearer, t) ==
    bearer.key = jwtSecretKey /\ bearer.jwt.exp > t

toolNames == {"freee_get_company", "freee_list_invoices"}

\* the margin of ensureValidToken
refreshMargin == 300

\* a test of the expiry that leaves the margin out
stillValid_NoMargin(token, t) ==
    token.freee_token_expires_at # 0 /\ token.freee_token_expires_at > t

\* ensureValidToken's test that the upstream token is still good
stillValid(token, t) ==
    token.freee_token_expires_at # 0
        /\ token.freee_token_expires_at > t + refreshMargin

\* a test for the refresh token that every row passes
canRefresh_Always(token) ==
    TRUE

\* ensureValidToken's test that there is a refresh token to use
canRefresh(token) ==
    token.freee_refresh_token # ""

\* tokenModel.updateFreeeTokens
updateFreeeTokens(table, id, freeeAccessToken, freeeRefreshToken, freeeTokenExpiresAt) ==
    [i \in DOMAIN table |->
        IF table[i].id = id
        THEN [table[i] EXCEPT !.freee_access_token = freeeAccessToken,
                              !.freee_refresh_token = freeeRefreshToken,
                              !.freee_token_expires_at = freeeTokenExpiresAt]
        ELSE table[i]]

\* sendMcpError and res.json of a result: -32001 is answered 401
McpError(code, message) ==
    Json("mcp", IF code = "-32001" THEN 401 ELSE 200, code, message)

McpResult == Json("mcp", 200, "", "")

\* what resp records of the response a suspended /mcp handler r sends
McpSent(r, response) ==
    [response EXCEPT !.handler = r, !.credential = reqs[r].existingToken.id]

McpHandler(pc, request, token, authorization) ==
    [Handler("mcp", pc, request, token.client_id, NoAuthCode, token)
        EXCEPT !.accessToken = request.authorization.jwt,
               !.sent = IF pc = "ensure" THEN 1 ELSE 0]
    @@ [authorization |-> authorization]

\* POST /mcp from the verified JWT to the first await of the tool, or to
\* the response
Mcp(request) ==
    LET bearer == request.authorization
        token == findByAccessToken(tokens, bearer.jwt)
        effectiveCompanyId ==
            IF request.company_id # 0 THEN request.company_id ELSE 0
        answer(response) == resp' = response /\ UNCHANGED reqs
    IN  /\ IF bearer = NoBearer
           THEN answer(McpError("-32001",
                    "Unauthorized: Missing or invalid Authorization header"))
           ELSE IF ~jwtVerify(bearer, now)
           THEN answer(McpError("-32001",
                                "Unauthorized: Invalid access token"))
           ELSE IF token = NoToken \/ ~tokenIsValid(token, now)
           THEN answer(McpError("-32001",
                                "Unauthorized: Token not found or expired"))
           ELSE IF request.method = "initialize"
                   \/ request.method = "tools/list"
           THEN answer([McpResult EXCEPT !.credential = token.id])
           ELSE IF request.method # "tools/call"
           THEN answer(McpError("-32601", "Method not found"))
           ELSE IF request.name \notin toolNames
           THEN answer(McpError("-32602", "Unknown tool"))
           ELSE IF effectiveCompanyId = 0
           THEN answer(McpError("-32602", "company_id is required"))
           ELSE IF stillValid(token, now)
           THEN /\ Len(reqs) < MaxReqs
                /\ reqs' = Append(reqs,
                       McpHandler("api", request, token,
                                  token.freee_access_token))
                /\ UNCHANGED resp
           ELSE IF ~canRefresh(token)
           THEN answer(McpError("-32603",
                    "Tool execution failed: Cannot refresh freee token: "
                        \o "no refresh token available"))
           ELSE /\ Len(reqs) < MaxReqs
                /\ reqs' = Append(reqs, McpHandler("ensure", request, token, ""))
                /\ UNCHANGED resp
        /\ UNCHANGED <<pkce, now, ticks, oauth_clients, auth_codes, tokens, freeeSeq>>

\* the answers the upstream can give to a refresh: the k-th pair, or its
\* access token with no new refresh token
FreeeRefreshResponses(k, t, e) ==
    {FreeeTokenResponse(k, t, e),
     [FreeeTokenResponse(k, t, e) EXCEPT !.refresh_token = ""]}

\* the upstream answers the refresh that ensureValidToken awaits: the pair
\* is issued now and travels back to the handler
FreeeRefresh(r, e) ==
    LET h == reqs[r]
    IN  /\ h.grant = "mcp"
        /\ h.pc = "ensure"
        /\ h.freeeTokens = NoFreeeTokens
        /\ \E newTokens \in FreeeRefreshResponses(freeeSeq + 1, now, e) :
              reqs' = [reqs EXCEPT ![r] = [h EXCEPT !.freeeTokens = newTokens]]
        /\ freeeSeq' = freeeSeq + 1
        /\ UNCHANGED <<pkce, now, ticks, oauth_clients, auth_codes, tokens, resp>>

\* an ensureValidToken that sends the refresh once more when it has failed
McpRefreshReply_Retry(r, ok, e) ==
    LET h == reqs[r]
    IN  /\ h.grant = "mcp"
        /\ h.pc = "ensure"
        /\ ~ok
        /\ h.sent < 2
        /\ reqs' = [reqs EXCEPT ![r] =
               [h EXCEPT !.sent = h.sent + 1, !.freeeTokens = NoFreeeTokens]]
        /\ UNCHANGED <<pkce, now, ticks, oauth_clients, auth_codes, tokens,
                       freeeSeq, resp>>

\* an ensureValidToken that revokes the row when the refresh has failed, as
\* the refresh_token grant does
McpRefreshReply_Revokes(r, ok, e) ==
    LET h == reqs[r]
    IN  /\ h.grant = "mcp"
        /\ h.pc = "ensure"
        /\ IF ok
           THEN /\ h.freeeTokens # NoFreeeTokens
                /\ h.freeeTokens.expires_in = e
                /\ LET newTokens == h.freeeTokens IN
                      /\ tokens' = updateFreeeTokens(tokens,
                             h.existingToken.id, newTokens.access_token,
                             newTokens.refresh_token,
                             newTokens.created_at + newTokens.expires_in)
                      /\ reqs' = [reqs EXCEPT ![r] =
                            [h EXCEPT
                               !.pc = "api",
                               !.freeeTokens = newTokens,
                               !.existingToken =
                                   [h.existingToken EXCEPT
                                      !.freee_access_token =
                                          newTokens.access_token,
                                      !.freee_refresh_token =
                                          newTokens.refresh_token,
                                      !.freee_token_expires_at =
                                          newTokens.created_at
                                              + newTokens.expires_in],
                               !.authorization = newTokens.access_token]]
                /\ UNCHANGED <<resp, freeeSeq>>
           ELSE /\ \E data \in FreeeErrors :
                      resp' = McpSent(r, McpError("-32603",
                                  "Tool execution failed: "
                                      \o thrown("refresh", data)))
                /\ reqs' = [reqs EXCEPT ![r] = [h EXCEPT !.pc = "done"]]
                /\ tokens' = revoke(tokens, h.existingToken.id)
                /\ UNCHANGED freeeSeq
        /\ UNCHANGED <<pkce, now, ticks, oauth_clients, auth_codes>>

\* ensureValidToken from the upstream's answer to the request to the API
McpRefreshReply(r, ok, e) ==
    LET h == reqs[r]
    IN  /\ h.grant = "mcp"
        /\ h.pc = "ensure"
        /\ IF ok
           THEN /\ h.freeeTokens # NoFreeeTokens
                /\ h.freeeTokens.expires_in = e
                /\ LET newTokens == h.freeeTokens IN
                      /\ tokens' = updateFreeeTokens(tokens,
                             h.existingToken.id, newTokens.access_token,
                             newTokens.refresh_token,
                             newTokens.created_at + newTokens.expires_in)
                      /\ reqs' = [reqs EXCEPT ![r] =
                            [h EXCEPT
                               !.pc = "api",
                               !.freeeTokens = newTokens,
                               !.existingToken =
                                   [h.existingToken EXCEPT
                                      !.freee_access_token =
                                          newTokens.access_token,
                                      !.freee_refresh_token =
                                          newTokens.refresh_token,
                                      !.freee_token_expires_at =
                                          newTokens.created_at
                                              + newTokens.expires_in],
                               !.authorization = newTokens.access_token]]
                /\ UNCHANGED <<resp, freeeSeq>>
           ELSE /\ \E data \in FreeeErrors :
                      resp' = McpSent(r, McpError("-32603",
                                  "Tool execution failed: "
                                      \o thrown("refresh", data)))
                /\ reqs' = [reqs EXCEPT ![r] = [h EXCEPT !.pc = "done"]]
                /\ UNCHANGED <<tokens, freeeSeq>>
        /\ UNCHANGED <<pkce, now, ticks, oauth_clients, auth_codes>>

\* FreeeClient.request from the API's answer to the response of /mcp
McpApiReply(r, ok) ==
    LET h == reqs[r]
    IN  /\ h.grant = "mcp"
        /\ h.pc = "api"
        /\ reqs' = [reqs EXCEPT ![r] = [h EXCEPT !.pc = "done"]]
        /\ resp' = McpSent(r, IF ok THEN McpResult
                              ELSE McpError("-32603",
                                       "Tool execution failed: freee API error"))
        /\ UNCHANGED <<pkce, now, ticks, oauth_clients, auth_codes, tokens, freeeSeq>>

-----------------------------------------------------------------------------
(* The requests of the model *)

ClientIds == {Fresh("chatgpt_", n) : n \in 1..MaxClients} \cup {"chatgpt_x"}
Codes == {Fresh("code", n) : n \in 1..MaxSessions} \cup {"nocode"}
RefreshTokens == {Fresh("refresh", n) : n \in 1..MaxReqs} \cup {"norefresh"}

RegisterBody(uris, grants, responses) ==
    [redirect_uris |-> uris, grant_types |-> grants,
     response_types |-> responses, scope |-> ""]

\* every shape of registration the handler tells apart
RegisterBodies ==
    {RegisterBody(u, g, r) :
        u \in {Undefined, [t |-> "string", v |-> <<HttpsUri>>], Array(<<>>),
               Array(<<HttpsUri>>), Array(<<HttpsUri, LoopbackUri>>),
               Array(<<PlainHttpUri>>), Array(<<HttpsUri, PlainHttpUri>>),
               Array(<<LocalhostLookalikeUri>>), Array(<<MalformedUri>>)},
        g \in {Undefined, Array(<<"authorization_code", "refresh_token">>),
               Array(<<"authorization_code", "implicit">>)},
        r \in {Undefined, Array(<<"code">>), Array(<<"token">>)}}

\* the registrations of the flows that go on to authorize
FlowRegisterBodies ==
    {RegisterBody(Array(<<HttpsUri>>), Undefined, Undefined),
     RegisterBody(Array(<<>>), Undefined, Undefined)}

AuthorizeQuery(responseType, clientId, redirectUri, state, challenge, method) ==
    [response_type |-> responseType, client_id |-> clientId,
     redirect_uri |-> redirectUri, scope |-> "", state |-> state,
     code_challenge |-> challenge, code_challenge_method |-> method]

\* every shape of authorization request the handler tells apart
AuthorizeQueries ==
    [response_type : {"", "code", "token"},
     client_id : {""} \cup ClientIds,
     redirect_uri : {"", HttpsUri, OtherUri, MalformedUri},
     scope : {""},
     state : {"", "xyz"},
     code_challenge : {""} \cup CodeChallenges,
     code_challenge_method : {""} \cup CodeChallengeMethods]
    \cup
    [response_type : {"code"},
     client_id : ClientIds,
     redirect_uri : {TrailingSlashUri, QueryUri},
     scope : {""},
     state : {"xyz"},
     code_challenge : {Challenge},
     code_challenge_method : {"", "S256"}]

\* the authorization requests of the flows that go on to the token endpoint
FlowAuthorizeQueries ==
    {AuthorizeQuery("code", i, HttpsUri, "xyz", Challenge, "S256") :
        i \in ClientIds}

CallbackQueries ==
    [code : {"", "UP123", "UP456"},
     state : {""} \cup Codes,
     error : {"", "access_denied"},
     error_description : {"", "The user denied"}]

FlowCallbackQueries ==
    [code : {"UP123"}, state : Codes, error : {""}, error_description : {""}]
    \cup
    [code : {""}, state : Codes, error : {"access_denied"},
     error_description : {""}]

TokenBody(grantType, code, redirectUri, clientId, verifier, refreshToken) ==
    [grant_type |-> grantType, code |-> code, redirect_uri |-> redirectUri,
     client_id |-> clientId, client_secret |-> "", code_verifier |-> verifier,
     refresh_token |-> refreshToken]

NoBasic == [client_id |-> "", client_secret |-> ""]
Basic(clientId) == [client_id |-> clientId, client_secret |-> "s3cret"]

\* token requests: every combination of present parameters, each required
\* parameter missing in turn, and the client named by the Basic header
CodeRequest == TokenBody("authorization_code", Fresh("code", 1), HttpsUri,
                         Fresh("chatgpt_", 1), Verifier, "")
RefreshRequest == TokenBody("refresh_token", "", "", Fresh("chatgpt_", 1), "",
                            Fresh("refresh", 1))

TokenRequests ==
    {<<TokenBody("authorization_code", c, u, i, v, ""), NoBasic>> :
        c \in Codes, u \in {HttpsUri, OtherUri}, i \in ClientIds,
        v \in {Verifier, OtherVerifier}}
    \cup
    {<<b, NoBasic>> :
        b \in {[CodeRequest EXCEPT !.code = ""],
               [CodeRequest EXCEPT !.redirect_uri = ""],
               [CodeRequest EXCEPT !.code_verifier = ""],
               [CodeRequest EXCEPT !.client_id = ""],
               [CodeRequest EXCEPT !.grant_type = ""],
               [CodeRequest EXCEPT !.grant_type = "password"],
               [RefreshRequest EXCEPT !.refresh_token = ""],
               [RefreshRequest EXCEPT !.client_id = ""]}}
    \cup
    {<<[CodeRequest EXCEPT !.client_id = ""], Basic(i)>> : i \in ClientIds}
    \cup
    {<<TokenBody("refresh_token", "", "", i, "", t), NoBasic>> :
        i \in ClientIds, t \in RefreshTokens}

-----------------------------------------------------------------------------
(* The specification *)

Init ==
    /\ now = 0
    /\ ticks = 0
    /\ oauth_clients = <<>>
    /\ auth_codes = <<>>
    /\ tokens = <<>>
    /\ reqs = <<>>
    /\ freeeSeq = 0
    /\ resp = NoResponse
    /\ pkce = NoCall

Replies ==
    \/ \E r \in DOMAIN reqs, ok \in BOOLEAN, e \in FreeeExpiresIn :
          ExchangeReply(r, ok, e)
    \/ \E r \in DOMAIN reqs : ExchangeSigned(r)
    \/ \E r \in DOMAIN reqs, ok \in BOOLEAN, e \in FreeeExpiresIn :
          RefreshReply(r, ok, e)
    \/ \E r \in DOMAIN reqs : RefreshSigned(r)

\* the whole flow, from registration to the token endpoint
Next ==
    \/ \E body \in FlowRegisterBodies : Register(body)
    \/ \E query \in FlowAuthorizeQueries : Authorize(query)
    \/ \E query \in FlowCallbackQueries : Callback(query)
    \/ \E q \in TokenRequests : Token(q[1], q[2])
    \/ Replies
    \/ \E d \in TickSteps : Tick(d)

Spec == Init /\ [][Next]_vars

\* the whole flow with a signer that can throw
NextUnexpected ==
    \/ Next
    \/ \E r \in DOMAIN reqs, forwarded \in BOOLEAN : SignRejected(r, forwarded)

SpecUnexpected == Init /\ [][NextUnexpected]_vars

\* the secrets a token request can carry: the one registered and another
Secrets == {Fresh("secret", 1), "s3cret"}

\* token requests of the flow, each with every secret in its body and in
\* its Basic header
SecretTokenRequests ==
    {<<[q[1] EXCEPT !.client_secret = s],
       IF q[2] = NoBasic THEN NoBasic ELSE [q[2] EXCEPT !.client_secret = t]>> :
        q \in {<<CodeRequest, NoBasic>>,
               <<[CodeRequest EXCEPT !.client_id = ""],
                 Basic(Fresh("chatgpt_", 1))>>,
               <<[CodeRequest EXCEPT !.code_verifier = OtherVerifier], NoBasic>>,
               <<RefreshRequest, NoBasic>>,
               <<[RefreshRequest EXCEPT !.client_id = "chatgpt_x"], NoBasic>>},
        s \in Secrets, t \in Secrets}

\* the whole flow with token requests that carry secrets
NextSecret ==
    \/ \E body \in {RegisterBody(Array(<<HttpsUri>>), Undefined, Undefined)} :
          Register(body)
    \/ \E query \in FlowAuthorizeQueries : Authorize(query)
    \/ \E query \in FlowCallbackQueries : Callback(query)
    \/ \E q \in SecretTokenRequests : Token(q[1], q[2])
    \/ Replies
    \/ \E d \in TickSteps : Tick(d)

SpecSecret == Init /\ [][NextSecret]_vars

\* registration on its own, over every shape of body
NextRegister ==
    \/ \E body \in RegisterBodies : Register(body)
    \/ \E d \in TickSteps : Tick(d)

SpecRegister == Init /\ [][NextRegister]_vars

\* registration, authorize and callback, over every shape of query
NextAuthorize ==
    \/ \E body \in FlowRegisterBodies : Register(body)
    \/ \E query \in AuthorizeQueries : Authorize(query)
    \/ \E query \in CallbackQueries : Callback(query)
    \/ \E d \in TickSteps : Tick(d)

SpecAuthorize == Init /\ [][NextAuthorize]_vars

\* the bearer tokens a client of /mcp can hold: the access tokens issued,
\* and one with the same claims signed by another key
McpBearers ==
    {Bearer(tokens[i].access_token, jwtSecretKey) : i \in DOMAIN tokens}
    \cup {Bearer(tokens[i].access_token, "other-key") : i \in DOMAIN tokens}
    \cup {NoBearer}

McpRequest(bearer, method, name, companyId) ==
    [authorization |-> bearer, jsonrpc |-> "2.0", method |-> method,
     name |-> name, company_id |-> companyId]

McpRequests ==
    {McpRequest(b, "tools/list", "", 0) : b \in McpBearers}
    \cup {McpRequest(b, "tools/call", "freee_get_company", 1) :
             b \in McpBearers}

\* lifetimes the upstream gives its access tokens: on the margin of
\* ensureValidToken, where the row still needs a refresh, and far beyond it
McpFreeeExpiresIn == {refreshMargin, 21600}

McpTokenRequests ==
    {<<CodeRequest, NoBasic>>}
    \cup {<<[RefreshRequest EXCEPT !.refresh_token = t], NoBasic>> :
             t \in RefreshTokens \ {"norefresh"}}

\* the flow up to issued tokens, refresh_token grants and /mcp
NextMcp ==
    \/ \E body \in {RegisterBody(Array(<<HttpsUri>>), Undefined, Undefined)} :
          Register(body)
    \/ \E query \in {AuthorizeQuery("code", Fresh("chatgpt_", 1), HttpsUri,
                                    "xyz", Challenge, "S256")} :
          Authorize(query)
    \/ \E query \in {[code |-> "UP123", state |-> Fresh("code", 1),
                      error |-> "", error_description |-> ""]} :
          Callback(query)
    \/ \E q \in McpTokenRequests : Token(q[1], q[2])
    \/ \E r \in DOMAIN reqs, ok \in BOOLEAN, e \in McpFreeeExpiresIn :
          ExchangeReply(r, ok, e)
    \/ \E r \in DOMAIN reqs : ExchangeSigned(r)
    \/ \E r \in DOMAIN reqs, ok \in BOOLEAN, e \in McpFreeeExpiresIn :
          RefreshReply(r, ok, e)
    \/ \E r \in DOMAIN reqs : RefreshSigned(r)
    \/ \E request \in McpRequests : Mcp(request)
    \/ \E r \in DOMAIN reqs, e \in McpFreeeExpiresIn : FreeeRefresh(r, e)
    \/ \E r \in DOMAIN reqs, ok \in BOOLEAN, e \in McpFreeeExpiresIn :
          McpRefreshReply(r, ok, e)
    \/ \E r \in DOMAIN reqs, ok \in BOOLEAN : McpApiReply(r, ok)
    \/ \E d \in TickSteps : Tick(d)

SpecMcp == Init /\ [][NextMcp]_vars

\* the scopes an authorization request asks for: none, and one
Scopes == {"", "read"}

\* the flow to the refresh_token grant, for sessions of either scope
NextScope ==
    \/ \E body \in {RegisterBody(Array(<<HttpsUri>>), Undefined, Undefined)} :
          Register(body)
    \/ \E scope \in Scopes :
          Authorize([AuthorizeQuery("code", Fresh("chatgpt_", 1), HttpsUri,
                                    "xyz", Challenge, "S256")
                        EXCEPT !.scope = scope])
    \/ \E query \in {[code |-> "UP123", state |-> Fresh("code", 1),
                      error |-> "", error_description |-> ""]} :
          Callback(query)
    \/ \E q \in McpTokenRequests : Token(q[1], q[2])
    \/ Replies
    \/ \E d \in TickSteps : Tick(d)

SpecScope == Init /\ [][NextScope]_vars

\* verifyCodeChallenge on its own: every verifier against every verifier
\* and every S256 challenge, under both methods
InitPkce ==
    /\ now = 0
    /\ ticks = 0
    /\ oauth_clients = <<>>
    /\ auth_codes = <<>>
    /\ tokens = <<>>
    /\ reqs = <<>>
    /\ freeeSeq = 0
    /\ resp = NoResponse
    /\ pkce \in [pc : {"call"},
                 codeVerifier : Verifiers,
                 codeChallenge :
                     Verifiers \cup {computeS256Challenge(v) : v \in Verifiers},
                 method : CodeChallengeMethods,
                 result : {FALSE}]

NextPkce == VerifyCodeChallenge

SpecPkce == InitPkce /\ [][NextPkce]_vars

-----------------------------------------------------------------------------
(* Properties of the token endpoint *)

\* the parameters handleAuthorizationCodeGrant requires are all present
Complete(body, basic) ==
    /\ body.code # ""
    /\ body.redirect_uri # ""
    /\ body.code_verifier # ""
    /\ Or(body.client_id, basic.client_id) # ""

CodeGrants == {q \in TokenRequests : q[1].grant_type = "authorization_code"}

\* an authorization_code grant for this code has been answered with 200
Redeemed(code) ==
    \E r \in DOMAIN reqs :
        /\ reqs[r].grant = "authorization_code"
        /\ reqs[r].authCode.code = code
        /\ reqs[r].response.status = 200

\* C1: once an authorization_code grant has succeeded for a code, every
\* authorization_code grant that arrives later with that code is answered
\* 400, with invalid_grant when it carries all required parameters
\* (invalid_request when one is missing), starts no exchange and creates no
\* token; and a used flag that is set is never cleared.
C1_CodeExchangedOnce ==
    [][/\ \A q \in CodeGrants :
            (Redeemed(q[1].code) /\ Token(q[1], q[2]))
            => /\ resp'.endpoint = "token"
               /\ resp'.status = 400
               /\ Complete(q[1], q[2]) => resp'.error = "invalid_grant"
               /\ tokens' = tokens
               /\ reqs' = reqs
       /\ \A i \in DOMAIN auth_codes :
            auth_codes[i].used = 1 => auth_codes'[i].used = 1]_vars

\* a grant arrived after the code was redeemed, within the TTL, and was refused
C1_Witness ==
    \E i \in DOMAIN auth_codes :
        /\ Redeemed(auth_codes[i].code)
        /\ now < auth_codes[i].expires_at
        /\ resp = [Json("token", 400, "invalid_grant",
                        "Authorization code has expired or already been used")
                      EXCEPT !.credential = auth_codes[i].code]

\* the request names a stored session and carries that session's client_id
\* and redirect_uri and a verifier matching its challenge
Correct(body, basic) ==
    LET authCode == findByCode(auth_codes, body.code)
    IN  /\ Complete(body, basic)
        /\ authCode # NoAuthCode
        /\ authCode.client_id = Or(body.client_id, basic.client_id)
        /\ authCode.redirect_uri = body.redirect_uri
        /\ body.code_verifier = Verifier
        /\ authCode.code_challenge = Challenge

\* the authorization_code handlers that went on to the upstream exchange
Exchanging(code) ==
    {r \in DOMAIN reqs : /\ reqs[r].grant = "authorization_code"
                         /\ reqs[r].authCode.code = code}

\* the rows of tokens a handler created
CreatedBy(h) ==
    {i \in DOMAIN tokens :
        /\ tokens[i].access_token = h.accessToken
        /\ tokens[i].freee_access_token = h.freeeTokens.access_token}

\* C2: of the requests that race on one code with the right client_id,
\* redirect_uri and code_verifier, one goes on to the upstream exchange and,
\* when that exchange succeeds, is answered 200 and has created one token;
\* every request that arrives while it is suspended (or later) is answered
\* invalid_grant and creates nothing.
C2_OneWinner ==
    /\ [](\A i \in DOMAIN auth_codes :
            /\ Cardinality(Exchanging(auth_codes[i].code)) <= 1
            /\ \A r \in Exchanging(auth_codes[i].code) :
                   /\ reqs[r].pc = "done" /\ reqs[r].freeeTokens # NoFreeeTokens
                      => /\ reqs[r].response.status = 200
                         /\ Cardinality(CreatedBy(reqs[r])) = 1
                   /\ reqs[r].pc # "done" \/ reqs[r].freeeTokens = NoFreeeTokens
                      => reqs[r].response.status # 200)
    /\ [][\A q \in CodeGrants :
            (/\ Correct(q[1], q[2])
             /\ Exchanging(q[1].code) # {}
             /\ Token(q[1], q[2]))
            => /\ resp'.status = 400
               /\ resp'.error = "invalid_grant"
               /\ resp'.credential = q[1].code
               /\ reqs' = reqs
               /\ tokens' = tokens]_vars

\* a request for the code was refused while the winner was still suspended
C2_Witness ==
    \E i \in DOMAIN auth_codes :
        /\ now < auth_codes[i].expires_at
        /\ \E r \in Exchanging(auth_codes[i].code) : reqs[r].pc = "sign"
        /\ resp = [Json("token", 400, "invalid_grant",
                        "Authorization code has expired or already been used")
                      EXCEPT !.credential = auth_codes[i].code]

\* C3: a session expires 600 seconds after its creation; a grant goes on to
\* the exchange only if the session is unused and now < expires_at when it
\* is checked; a complete request for an existing code at or after
\* expires_at is answered invalid_grant and changes nothing.
C3_RedeemableWhileFresh ==
    /\ [](\A i \in DOMAIN auth_codes :
            auth_codes[i].expires_at = auth_codes[i].created_at + 600)
    /\ [][/\ \A q \in CodeGrants :
               (/\ Complete(q[1], q[2])
                /\ findByCode(auth_codes, q[1].code) # NoAuthCode
                /\ now >= findByCode(auth_codes, q[1].code).created_at + 600
                /\ Token(q[1], q[2]))
               => /\ resp'.status = 400
                  /\ resp'.error = "invalid_grant"
                  /\ UNCHANGED <<auth_codes, reqs, tokens>>
          /\ \A r \in DOMAIN reqs' \ DOMAIN reqs :
               reqs'[r].grant = "authorization_code"
               => LET authCode == findByCode(auth_codes, reqs'[r].authCode.code)
                  IN  /\ authCode.used = 0
                      /\ now < authCode.created_at + 600]_vars

\* a request for a code that was never used was refused at its expiry
C3_Witness ==
    \E i \in DOMAIN auth_codes :
        /\ auth_codes[i].used = 0
        /\ auth_codes[i].freee_code # ""
        /\ now = auth_codes[i].expires_at
        /\ resp = [Json("token", 400, "invalid_grant",
                        "Authorization code has expired or already been used")
                      EXCEPT !.credential = auth_codes[i].code]

RefreshGrants == {q \in TokenRequests : q[1].grant_type = "refresh_token"}

\* the refresh_token handlers that presented the refresh token of this row
Refreshing(id) ==
    {r \in DOMAIN reqs : /\ reqs[r].grant = "refresh_token"
                         /\ reqs[r].existingToken.id = id}

\* a refresh_token grant presenting this row's refresh token was answered 200
Refreshed(id) ==
    \E r \in Refreshing(id) : reqs[r].response.status = 200

\* C4: once a refresh_token grant has succeeded, a refresh_token request
\* that arrives later with the refresh token presented in it is answered
\* invalid_grant (invalid_request if it names no client) and changes
\* nothing; and when a grant succeeds, the refresh token it returns
\* resolves to the row it has just created.
C4_OldRefreshTokenDead ==
    [][/\ \A q \in RefreshGrants :
            (/\ \E i \in DOMAIN tokens :
                    /\ tokens[i].refresh_token = q[1].refresh_token
                    /\ Refreshed(tokens[i].id)
             /\ Token(q[1], q[2]))
            => /\ resp'.status = 400
               /\ Or(q[1].client_id, q[2].client_id) # ""
                    => resp'.error = "invalid_grant"
               /\ UNCHANGED <<tokens, reqs>>
       /\ \A r \in DOMAIN reqs :
            RefreshSigned(r)
            => LET new == findByRefreshToken(tokens',
                              reqs'[r].response.refresh_token)
               IN  /\ reqs'[r].response.status = 200
                   /\ new = tokens'[Len(tokens')]
                   /\ Len(tokens') = Len(tokens) + 1
                   /\ new.access_token = reqs'[r].response.access_token
                   /\ new.id # reqs[r].existingToken.id
                   /\ reqs'[r].response.refresh_token
                         # reqs[r].existingToken.refresh_token]_vars

\* the old refresh token was presented again after its refresh and refused
C4_Witness ==
    \E i \in DOMAIN tokens :
        /\ Refreshed(tokens[i].id)
        /\ resp = [Json("token", 400, "invalid_grant", "Invalid refresh token")
                      EXCEPT !.credential = tokens[i].refresh_token]

\* C5: of the refresh_token requests that present one refresh token, at
\* most one is answered 200 and creates a successor.
C5_OneSuccessor ==
    \A i \in DOMAIN tokens :
        Cardinality({r \in Refreshing(tokens[i].id) :
                        reqs[r].response.status = 200}) <= 1

\* C7: a complete authorization_code grant for a stored code whose client_id
\* or redirect_uri differs from the session's is answered invalid_grant,
\* starts no exchange and changes nothing, whatever its other parameters.
C7_BoundToClientAndRedirect ==
    [][\A q \in CodeGrants :
          LET authCode == findByCode(auth_codes, q[1].code)
          IN  (/\ Complete(q[1], q[2])
               /\ authCode # NoAuthCode
               /\ \/ authCode.client_id # Or(q[1].client_id, q[2].client_id)
                  \/ authCode.redirect_uri # q[1].redirect_uri
               /\ Token(q[1], q[2]))
              => /\ resp'.status = 400
                 /\ resp'.error = "invalid_grant"
                 /\ resp'.credential = q[1].code
                 /\ UNCHANGED <<auth_codes, reqs, tokens>>]_vars

\* a redeemable code was presented with another redirect_uri and refused
C7_Witness ==
    \E i \in DOMAIN auth_codes :
        /\ auth_codes[i].used = 0
        /\ auth_codes[i].freee_code # ""
        /\ now < auth_codes[i].expires_at
        /\ resp = [Json("token", 400, "invalid_grant",
                        "redirect_uri does not match")
                      EXCEPT !.credential = auth_codes[i].code]

\* C8: a complete authorization_code grant for a stored code whose
\* code_verifier does not hash to the stored challenge is answered
\* invalid_grant; no handler is suspended on an upstream call and no table
\* changes.
C8_VerifierMustMatch ==
    [][\A q \in CodeGrants :
          LET authCode == findByCode(auth_codes, q[1].code)
          IN  (/\ Complete(q[1], q[2])
               /\ authCode # NoAuthCode
               /\ authCode.code_challenge_method = "S256"
               /\ computeS256Challenge(q[1].code_verifier)
                     # authCode.code_challenge
               /\ Token(q[1], q[2]))
              => /\ resp'.status = 400
                 /\ resp'.error = "invalid_grant"
                 /\ resp'.credential = q[1].code
                 /\ UNCHANGED <<auth_codes, reqs, tokens, freeeSeq>>]_vars

\* a redeemable code was presented with a wrong verifier and refused
C8_Witness ==
    \E i \in DOMAIN auth_codes :
        /\ auth_codes[i].used = 0
        /\ auth_codes[i].freee_code # ""
        /\ now < auth_codes[i].expires_at
        /\ resp = [Json("token", 400, "invalid_grant", "Invalid code_verifier")
                      EXCEPT !.credential = auth_codes[i].code]

\* the codes of the sessions
SessionCodes == {auth_codes[i].code : i \in DOMAIN auth_codes}

\* C9: the happy path, step by step.  An authorize request of a registered
\* client with a registered redirect_uri and a valid S256 challenge is
\* answered 302 to the upstream provider with state a fresh session code;
\* a callback with an upstream code and that state is answered 302 to the
\* session's redirect_uri with code the session code and the original
\* state; a token request before expires_at with the session's client_id
\* and redirect_uri and the matching verifier goes on to the upstream
\* exchange; and when the exchange succeeds the answer is 200 with
\* access_token, token_type Bearer, refresh_token and expires_in 3600, and
\* one new live row of tokens.
C9_HappyPath ==
    /\ [][\A q \in FlowAuthorizeQueries :
            LET client == findByClientId(oauth_clients, q.client_id)
            IN  (/\ client # NoClient
                 /\ q.redirect_uri \in Range(client.redirect_uris)
                 /\ Authorize(q))
                => /\ resp'.status = 302
                   /\ resp'.location = freeeAuthorizationEndpoint
                   /\ resp'.params.state \notin SessionCodes \cup {""}
                   /\ Len(auth_codes') = Len(auth_codes) + 1
                   /\ LET session == findByCode(auth_codes', resp'.params.state)
                      IN  /\ session = auth_codes'[Len(auth_codes')]
                          /\ session.client_id = q.client_id
                          /\ session.redirect_uri = q.redirect_uri
                          /\ session.state = q.state
                          /\ session.expires_at = now + 600]_vars
    /\ [][\A q \in FlowCallbackQueries :
            (/\ q.code # "" /\ q.error = ""
             /\ q.state \in SessionCodes
             /\ Callback(q))
            => LET session == findByCode(auth_codes, q.state)
               IN  /\ resp'.status = 302
                   /\ resp'.location = session.redirect_uri
                   /\ resp'.params.code = session.code
                   /\ resp'.params.state = session.state
                   /\ resp'.params.error = ""
                   /\ findByCode(auth_codes', q.state).freee_code = q.code]_vars
    /\ [][\A q \in CodeGrants :
            LET session == findByCode(auth_codes, q[1].code)
            IN  (/\ Correct(q[1], q[2])
                 /\ session.freee_code # "" /\ session.used = 0
                 /\ now < session.expires_at
                 /\ Token(q[1], q[2]))
                => /\ Len(reqs') = Len(reqs) + 1
                   /\ reqs'[Len(reqs')].pc = "exchange"
                   /\ reqs'[Len(reqs')].authCode.code = q[1].code]_vars
    /\ [][\A r \in DOMAIN reqs :
            /\ \A e \in FreeeExpiresIn :
                   (reqs[r].grant = "authorization_code"
                        /\ ExchangeReply(r, TRUE, e))
                   => reqs'[r].pc = "sign"
            /\ ExchangeSigned(r)
               => /\ resp'.status = 200 /\ resp'.handler = r
                  /\ reqs'[r].response.status = 200
                  /\ reqs'[r].response.access_token # NoJwt
                  /\ reqs'[r].response.token_type = "Bearer"
                  /\ reqs'[r].response.refresh_token # ""
                  /\ reqs'[r].response.expires_in = 3600
                  /\ Len(tokens') = Len(tokens) + 1
                  /\ SubSeq(tokens', 1, Len(tokens)) = tokens
                  /\ LET new == tokens'[Len(tokens')]
                     IN  /\ tokenIsValid(new, now)
                         /\ new.access_token = reqs'[r].response.access_token
                         /\ new.refresh_token
                               = reqs'[r].response.refresh_token
                         /\ new.client_id = reqs[r].authCode.client_id]_vars

\* the flow has run to its end: the session holds the upstream code, is
\* used, and its token request has just been answered 200
C9_Witness ==
    \E i \in DOMAIN auth_codes, r \in DOMAIN reqs :
        /\ auth_codes[i].freee_code = "UP123"
        /\ auth_codes[i].state = "xyz"
        /\ auth_codes[i].used = 1
        /\ reqs[r].authCode.code = auth_codes[i].code
        /\ reqs[r].grant = "authorization_code"
        /\ reqs[r].response.status = 200
        /\ resp.status = 200 /\ resp.handler = r
        /\ \E j \in DOMAIN tokens :
               /\ tokenIsValid(tokens[j], now)
               /\ tokens[j].refresh_token = reqs[r].response.refresh_token

\* C6: the authorize handler redirects to the request's redirect_uri only
\* when client_id names a registered client and redirect_uri is one of its
\* registered URIs; a request with a wrong or missing response_type, no
\* code_challenge, an unsupported code_challenge_method, a malformed
\* code_challenge, an unknown client or an unregistered redirect_uri is
\* answered with a 400 JSON body.
C6_NoRedirectBeforeTrust ==
    [][\A q \in AuthorizeQueries :
          LET client == findByClientId(oauth_clients, q.client_id)
              trusted == /\ client # NoClient
                         /\ q.redirect_uri \in Range(client.redirect_uris)
              method == IF q.code_challenge_method = ""
                        THEN "S256" ELSE q.code_challenge_method
              failure == \/ q.response_type # "code"
                         \/ q.code_challenge = ""
                         \/ method # "S256"
                         \/ ~ChallengeFormats[q.code_challenge, method]
                         \/ ~trusted
          IN  Authorize(q)
              => /\ (resp'.status = 302 /\ resp'.location = q.redirect_uri)
                        => trusted
                 /\ failure => (resp'.status = 400 /\ resp'.location = "")]_vars

\* a URI the registration is to accept: HTTPS, or on a loopback host
C10_Acceptable(uri) ==
    /\ newURL(uri).ok
    /\ \/ newURL(uri).protocol = "https:"
       \/ newURL(uri).hostname \in {"localhost", "127.0.0.1", "[::1]"}

\* C10: a registration whose redirect_uris is missing, not an array or
\* empty is answered invalid_client_metadata, one with a redirect URI that
\* is neither HTTPS nor on a loopback host invalid_redirect_uri, and
\* neither adds a row to oauth_clients.
C10_RegistrationRejected ==
    [][\A body \in RegisterBodies :
          LET uris == body.redirect_uris
          IN  Register(body)
              => /\ (uris.t # "array" \/ Len(uris.v) = 0)
                        => /\ resp'.status = 400
                           /\ resp'.error = "invalid_client_metadata"
                           /\ UNCHANGED oauth_clients
                 /\ (/\ uris.t = "array"
                     /\ \E i \in DOMAIN uris.v : ~C10_Acceptable(uris.v[i]))
                        => /\ resp'.status = 400
                           /\ resp'.error = "invalid_redirect_uri"
                           /\ UNCHANGED oauth_clients]_vars

-----------------------------------------------------------------------------
(* Properties of registration, the callback and the failure paths *)

\* the grant types and response types a registration asks for
C11_Requested(member, default) ==
    IF member.t = "undefined" THEN default ELSE Range(member.v)

\* C11: a registration whose redirect_uris holds a URI that does not parse,
\* or (its redirect URIs passing) asks for a grant type outside
\* {authorization_code, refresh_token} or a response type outside {code},
\* is answered invalid_client_metadata; a registration answered 400 adds no
\* row to oauth_clients.
C11_MetadataRejected ==
    [][\A body \in RegisterBodies :
          LET uris == body.redirect_uris
              malformed == /\ uris.t = "array"
                           /\ \E i \in DOMAIN uris.v : ~newURL(uris.v[i]).ok
              passing == /\ uris.t = "array" /\ Len(uris.v) > 0
                         /\ \A i \in DOMAIN uris.v :
                                redirectUriError(uris.v[i]) = ""
              unsupported ==
                  \/ ~(C11_Requested(body.grant_types, {"authorization_code"})
                          \subseteq {"authorization_code", "refresh_token"})
                  \/ ~(C11_Requested(body.response_types, {"code"})
                          \subseteq {"code"})
          IN  Register(body)
              => /\ (malformed \/ (passing /\ unsupported))
                        => /\ resp'.status = 400
                           /\ resp'.error = "invalid_client_metadata"
                 /\ resp'.status = 400 => UNCHANGED oauth_clients]_vars

\* the session the handler creates for an accepted query as the n-th
C12_Session(q, n, t) ==
    authCodeCreate([client_id |-> q.client_id,
                    redirect_uri |-> q.redirect_uri,
                    scope |-> q.scope,
                    code_challenge |-> q.code_challenge,
                    code_challenge_method |-> "S256",
                    state |-> q.state], n, t)

\* C12: the redirect to the upstream provider carries as state the code of
\* the session just created, a code no session had before; no parameter of
\* it contains the request's code_challenge, code_challenge_method,
\* client_id, redirect_uri or state; and any other accepted request would,
\* in the same place, have drawn the same redirect but for the session code.
C12_UpstreamRedirectOpaque ==
    [][Len(auth_codes') > Len(auth_codes) =>
       \A q \in AuthorizeQueries :
          Authorize(q)
          => LET session == auth_codes'[Len(auth_codes')]
                 supplied == {q.code_challenge, q.code_challenge_method,
                              q.client_id, q.redirect_uri, q.state} \ {""}
             IN  /\ Len(auth_codes') = Len(auth_codes) + 1
                 /\ resp'.status = 302
                 /\ resp'.location = freeeAuthorizationEndpoint
                 /\ resp'.params.state = session.code
                 /\ session.code \notin SessionCodes \cup {""}
                 /\ \A f \in DOMAIN resp'.params : \A v \in supplied :
                        ~Includes(resp'.params[f], v)
                 /\ \A q2 \in AuthorizeQueries :
                        authorizeReject(q2) = NoResponse
                        => [freeeAuthUrl(C12_Session(q2, Len(auth_codes) + 1,
                                                     now))
                               EXCEPT !.state = ""]
                           = [resp'.params EXCEPT !.state = ""]]_vars

\* a request with a state and a challenge of its own has been redirected to
\* the upstream provider
C12_Witness ==
    /\ Len(auth_codes) > 0
    /\ LET session == auth_codes[Len(auth_codes)]
       IN  /\ session.state = "xyz"
           /\ session.code_challenge = OtherChallenge
           /\ resp.endpoint = "authorize"
           /\ resp.status = 302
           /\ resp.location = freeeAuthorizationEndpoint
           /\ resp.params.state = session.code

\* C13: a callback with a known state, an upstream code and no error
\* stores the upstream code on the session named by state and on no other,
\* and is answered with a redirect to that session's redirect_uri whose
\* code is the session's code, not the upstream code, and whose state is
\* the state stored at authorize.
C13_CallbackSuccess ==
    [][resp'.endpoint = "callback" =>
       \A q \in CallbackQueries :
          (/\ q.state \in SessionCodes
           /\ q.code # "" /\ q.error = ""
           /\ Callback(q))
          => LET session == findByCode(auth_codes, q.state)
             IN  /\ DOMAIN auth_codes' = DOMAIN auth_codes
                 /\ \A i \in DOMAIN auth_codes :
                        auth_codes'[i] =
                            IF auth_codes[i].code = q.state
                            THEN [auth_codes[i] EXCEPT !.freee_code = q.code]
                            ELSE auth_codes[i]
                 /\ resp'.status = 302
                 /\ resp'.location = session.redirect_uri
                 /\ resp'.params.code = session.code
                 /\ resp'.params.code # q.code
                 /\ resp'.params.state = session.state
                 /\ resp'.params.error = ""]_vars

\* a session that carried a client state holds the upstream code and the
\* client has been sent back to its redirect_uri
C13_Witness ==
    \E i \in DOMAIN auth_codes :
        /\ auth_codes[i].freee_code = "UP456"
        /\ auth_codes[i].state = "xyz"
        /\ resp = Redirect("callback", auth_codes[i].redirect_uri,
                      [NoParams EXCEPT !.code = auth_codes[i].code,
                                       !.state = "xyz"])

\* C14: a callback with a known state and an error is answered with a
\* redirect to the session's redirect_uri that carries error,
\* error_description and the state stored on the session and no code; the
\* sessions are left as they are, so no upstream code is stored.
C14_CallbackError ==
    [][resp'.endpoint = "callback" =>
       \A q \in CallbackQueries :
          (/\ q.state \in SessionCodes
           /\ q.error # ""
           /\ Callback(q))
          => LET session == findByCode(auth_codes, q.state)
             IN  /\ UNCHANGED auth_codes
                 /\ resp'.status = 302
                 /\ resp'.location = session.redirect_uri
                 /\ resp'.params.error # ""
                 /\ resp'.params.error_description # ""
                 /\ q.error_description # ""
                        => resp'.params.error_description
                              = q.error_description
                 /\ resp'.params.state = session.state
                 /\ resp'.params.code = ""]_vars

\* an error callback was passed on to the client of a session with a
\* state, and the session holds no upstream code
C14_Witness ==
    \E i \in DOMAIN auth_codes :
        /\ auth_codes[i].freee_code = ""
        /\ auth_codes[i].state = "xyz"
        /\ resp = Redirect("callback", auth_codes[i].redirect_uri,
                      [NoParams EXCEPT !.error = "access_denied",
                                       !.error_description = "The user denied",
                                       !.state = "xyz"])

\* C15: a callback whose state is missing or names no session is answered
\* with a 400 JSON body and no redirect, and the sessions are left as they
\* are, whatever code or error the callback carries.
C15_CallbackUnknownState ==
    [][resp'.endpoint = "callback" =>
       \A q \in CallbackQueries :
          (q.state \notin SessionCodes /\ Callback(q))
          => /\ resp'.status = 400
             /\ resp'.error = "invalid_request"
             /\ resp'.location = ""
             /\ resp'.params = NoParams
             /\ UNCHANGED auth_codes]_vars

\* with a session stored, a callback naming another state was refused
C15_Witness ==
    /\ Len(auth_codes) > 0
    /\ \A i \in DOMAIN auth_codes : auth_codes[i].freee_code = ""
    /\ resp = Json("callback", 400, "invalid_request",
                   "Invalid or expired state")

-----------------------------------------------------------------------------
(* Properties of the upstream failures *)

\* C16: when the upstream exchange of an authorization_code grant fails,
\* the request is answered 400 invalid_grant with the description "Failed
\* to exchange authorization code with freee", in which nothing of the
\* upstream's error occurs, and tokens is left as it is; a handler so
\* answered has created no token.
C16_ExchangeFailure ==
    /\ [][\A r \in DOMAIN reqs : \A e \in FreeeExpiresIn :
            ExchangeReply(r, FALSE, e)
            => /\ resp'.status = 400 /\ resp'.handler = r
               /\ resp'.error = "invalid_grant"
               /\ resp'.error_description
                     = "Failed to exchange authorization code with freee"
               /\ \A data \in FreeeErrors :
                      /\ ~Includes(resp'.error_description,
                                   thrown("exchange", data))
                      /\ data.error_description # ""
                            => ~Includes(resp'.error_description,
                                         data.error_description)
               /\ reqs'[r].response.status = 400
               /\ reqs'[r].response.access_token = NoJwt
               /\ reqs'[r].response.refresh_token = ""
               /\ reqs'[r].pc = "done"
               /\ UNCHANGED tokens]_vars
    /\ [](\A r \in DOMAIN reqs :
            (reqs[r].grant = "authorization_code"
                 /\ reqs[r].response.status = 400)
            => CreatedBy(reqs[r]) = {})

\* the exchange of a redeemable code has failed and left no token
C16_Witness ==
    \E r \in DOMAIN reqs :
        /\ reqs[r].grant = "authorization_code"
        /\ reqs[r].pc = "done"
        /\ reqs[r].authCode.freee_code = "UP123"
        /\ tokens = <<>>
        /\ resp = Sent(r, TokenError("invalid_grant",
                      "Failed to exchange authorization code with freee"))

\* the upstream refresh of a refresh_token grant for this row has failed
FailedRefresh(id) ==
    \E r \in Refreshing(id) :
        reqs[r].pc = "done" /\ reqs[r].response.status = 400

\* C17: when the upstream refresh of a refresh_token grant fails, the row
\* presented is revoked and nothing else of tokens changes, so that no
\* successor is created, and the answer is invalid_grant; a refresh_token
\* request that arrives later with that row's refresh token is answered
\* invalid_grant, and a request to /mcp that arrives later with that row's
\* access token is answered 401.
C17_RefreshFailureRevokes ==
    [][/\ \A r \in DOMAIN reqs : \A e \in McpFreeeExpiresIn :
            RefreshReply(r, FALSE, e)
            => /\ tokens' = [i \in DOMAIN tokens |->
                     IF tokens[i].id = reqs[r].existingToken.id
                     THEN [tokens[i] EXCEPT !.revoked = 1] ELSE tokens[i]]
               /\ \E i \in DOMAIN tokens :
                      tokens[i].id = reqs[r].existingToken.id
               /\ resp'.status = 400 /\ resp'.handler = r
               /\ resp'.error = "invalid_grant"
               /\ reqs'[r].response.status = 400
       /\ \A q \in McpTokenRequests :
            (/\ \E i \in DOMAIN tokens :
                    /\ tokens[i].refresh_token = q[1].refresh_token
                    /\ q[1].grant_type = "refresh_token"
                    /\ FailedRefresh(tokens[i].id)
             /\ Token(q[1], q[2]))
            => /\ resp'.status = 400
               /\ resp'.error = "invalid_grant"
               /\ UNCHANGED <<tokens, reqs>>
       /\ \A request \in McpRequests :
            (/\ request.authorization.key = jwtSecretKey
             /\ \E i \in DOMAIN tokens :
                    /\ tokens[i].access_token = request.authorization.jwt
                    /\ FailedRefresh(tokens[i].id)
             /\ Mcp(request))
            => /\ resp'.status = 401
               /\ UNCHANGED <<tokens, reqs>>]_vars

\* C18: a refresh_token grant that names a client and presents a refresh
\* token held by no row that is not revoked, or held by a row of another
\* client, is answered invalid_grant; no handler is suspended on an upstream
\* call and tokens is left as it is.
C18_RefreshRejected ==
    [][\A q \in RefreshGrants :
          LET clientId == Or(q[1].client_id, q[2].client_id)
              live == {i \in DOMAIN tokens :
                          /\ tokens[i].refresh_token = q[1].refresh_token
                          /\ tokens[i].revoked = 0}
          IN  (/\ q[1].refresh_token # "" /\ clientId # ""
               /\ \/ live = {}
                  \/ \E i \in live : tokens[i].client_id # clientId
               /\ Token(q[1], q[2]))
              => /\ resp'.status = 400
                 /\ resp'.error = "invalid_grant"
                 /\ resp'.credential = q[1].refresh_token
                 /\ UNCHANGED <<tokens, reqs, freeeSeq>>]_vars

\* the refresh token of a live row was presented by another client and
\* refused, and the row is still live
C18_Witness ==
    \E i \in DOMAIN tokens :
        /\ tokens[i].revoked = 0
        /\ resp = [Json("token", 400, "invalid_grant",
                        "Refresh token was not issued to this client")
                      EXCEPT !.credential = tokens[i].refresh_token]

-----------------------------------------------------------------------------
(* Properties of PKCE *)

\* the challenge a client derives from its verifier
C19_computeChallenge(verifier, method) ==
    IF method = "S256" THEN computeS256Challenge(verifier) ELSE verifier

\* b is a with one character changed
C19_SingleCharacterMutation(a, b) ==
    /\ Len(a) = Len(b)
    /\ Cardinality({i \in 1..Len(a) : SubSeq(a, i, i) # SubSeq(b, i, i)}) = 1

\* C19: for a valid verifier and a method of S256 or plain, the challenge
\* computed from the verifier verifies against the verifier, and does not
\* verify against any verifier that differs from it in one character.
C19_VerifyRoundTrip ==
    pkce.pc = "returned" =>
        \A v \in Verifiers :
            (/\ isValidCodeVerifier(v)
             /\ pkce.method \in {"S256", "plain"}
             /\ pkce.codeChallenge = C19_computeChallenge(v, pkce.method))
            => /\ pkce.codeVerifier = v => pkce.result
               /\ C19_SingleCharacterMutation(v, pkce.codeVerifier)
                      => ~pkce.result

\* the S256 challenge of one verifier was checked against a verifier that
\* differs from it in its last character, and refused
C19_Witness ==
    /\ pkce.pc = "returned"
    /\ pkce.method = "S256"
    /\ pkce.codeChallenge = computeS256Challenge(Verifier)
    /\ pkce.codeVerifier = OtherVerifier
    /\ C19_SingleCharacterMutation(Verifier, OtherVerifier)
    /\ pkce.result = FALSE

-----------------------------------------------------------------------------
(* Properties of the protected resource *)

\* a tools/call that /mcp accepts: the bearer verifies and a live row
\* holds its access token
C20_Accepted(request) ==
    /\ request.method = "tools/call"
    /\ request.name \in toolNames /\ request.company_id # 0
    /\ request.authorization.key = jwtSecretKey
    /\ request.authorization.jwt.exp > now
    /\ \E i \in DOMAIN tokens :
           /\ tokens[i].access_token = request.authorization.jwt
           /\ tokens[i].revoked = 0 /\ tokens[i].expires_at > now

C21_NoRefreshTokenFails ==
    [][\A request \in McpRequests :
          LET token == findByAccessToken(tokens, request.authorization.jwt)
          IN  (/\ C20_Accepted(request)
               /\ ~(token.freee_token_expires_at > now + 300)
               /\ token.freee_refresh_token = ""
               /\ Mcp(request))
              => /\ resp'.endpoint = "mcp"
                 /\ resp'.error = "-32603"
                 /\ UNCHANGED <<tokens, reqs, freeeSeq>>]_vars

\* a call has just failed on a live row inside the margin that holds no
\* upstream refresh token
C21_Witness ==
    /\ resp = McpError("-32603",
                  "Tool execution failed: Cannot refresh freee token: "
                      \o "no refresh token available")
    /\ \E i \in DOMAIN tokens :
           /\ tokens[i].revoked = 0 /\ tokens[i].expires_at > now
           /\ tokens[i].freee_refresh_token = ""
           /\ ~(tokens[i].freee_token_expires_at > now + 300)

-----------------------------------------------------------------------------
(* Properties of the refresh chains and of the access tokens *)

\* the rows a successful refresh_token grant for row i has created
C22_Successors(i) ==
    {j \in DOMAIN tokens :
        \E r \in Refreshing(tokens[i].id) :
            /\ reqs[r].response.status = 200
            /\ reqs[r].response.refresh_token = tokens[j].refresh_token}

\* the row a code exchange created from which row j descends; rows are
\* appended, so that a predecessor comes before its successors
RECURSIVE C22_Root(_)
C22_Root(j) ==
    IF \E i \in 1..(j - 1) : j \in C22_Successors(i)
    THEN C22_Root(CHOOSE i \in 1..(j - 1) : j \in C22_Successors(i))
    ELSE j

C22_Chain(k) == {j \in DOMAIN tokens : C22_Root(j) = k}

\* C22: a refresh chain holds at most one row that is not revoked, and
\* exactly one while no upstream refresh of a row of the chain has failed;
\* a successful refresh revokes its predecessor and appends one row.
C22_OneLivePerChain ==
    /\ [](\A k \in DOMAIN tokens :
            C22_Root(k) = k
            => LET live == {j \in C22_Chain(k) : tokens[j].revoked = 0}
               IN  /\ Cardinality(live) <= 1
                   /\ (\A j \in C22_Chain(k) : ~FailedRefresh(tokens[j].id))
                          => Cardinality(live) = 1)
    /\ [][\A r \in DOMAIN reqs :
            RefreshSigned(r)
            => /\ Len(tokens') = Len(tokens) + 1
               /\ tokens'[Len(tokens')].revoked = 0
               /\ \A i \in DOMAIN tokens :
                      tokens[i].id = reqs[r].existingToken.id
                      => tokens'[i].revoked = 1]_vars

-----------------------------------------------------------------------------
(* Properties of the life of a session *)

\* C23: a session is marked used only when it holds an upstream code: a
\* token request with the session's client_id and redirect_uri and the
\* matching verifier, for a session whose callback has not arrived, is
\* answered invalid_grant and leaves used at 0.
C23_UsedOnlyAfterCallback ==
    [][/\ \A i \in DOMAIN auth_codes :
            (auth_codes[i].used = 0 /\ auth_codes'[i].used = 1)
            => auth_codes[i].freee_code # ""
       /\ \A q \in CodeGrants :
            LET session == findByCode(auth_codes, q[1].code)
            IN  (/\ Correct(q[1], q[2])
                 /\ session.freee_code = "" /\ session.used = 0
                 /\ now < session.expires_at
                 /\ Token(q[1], q[2]))
                => /\ resp'.status = 400
                   /\ resp'.error = "invalid_grant"
                   /\ findByCode(auth_codes', q[1].code).used = 0]_vars

\* C24: no two rows of the tokens table hold the same local access token,
\* even when they were minted for the same client, subject, scope and
\* company within one second of the clock.
C24_AccessTokensDistinct ==
    \A i, j \in DOMAIN tokens :
        tokens[i].access_token = tokens[j].access_token => i = j

-----------------------------------------------------------------------------
(* Properties of the upstream credentials *)

\* the place of an upstream access token in the order the upstream issued
\* them, 0 for none
C25_Issued(access) ==
    IF \E k \in 1..(MaxReqs + 1) : access = Fresh("freee-access", k)
    THEN CHOOSE k \in 1..(MaxReqs + 1) : access = Fresh("freee-access", k)
    ELSE 0

\* C25: whatever the interleaving of the refreshes of the freshness guard
\* and of the refresh_token grants, the upstream credentials of a row are
\* replaced only by a pair the upstream issued later than the pair stored.
C25_OnlyNewerPairs ==
    [][\A i \in DOMAIN tokens :
          tokens'[i].freee_access_token # tokens[i].freee_access_token
          => C25_Issued(tokens'[i].freee_access_token)
                 > C25_Issued(tokens[i].freee_access_token)]_vars

-----------------------------------------------------------------------------
(* Properties of the callbacks that arrive late *)

\* C26: the upstream code of a session is written at most once: once a
\* callback has stored one, no later callback with the same state changes
\* the session's freee_code, user_id or company_id.
C26_UpstreamCodeWrittenOnce ==
    [][\A i \in DOMAIN auth_codes :
          auth_codes[i].freee_code # ""
          => /\ auth_codes'[i].freee_code = auth_codes[i].freee_code
             /\ auth_codes'[i].user_id = auth_codes[i].user_id
             /\ auth_codes'[i].company_id = auth_codes[i].company_id]_vars

\* C27: a session marked used is final: no authorize, callback or token
\* request changes a field of it afterwards, and no callback naming it is
\* answered with a redirect that carries the session's code.
C27_UsedIsTerminal ==
    [][\A i \in DOMAIN auth_codes :
          auth_codes[i].used = 1
          => /\ auth_codes'[i] = auth_codes[i]
             /\ \A q \in FlowCallbackQueries :
                  (q.state = auth_codes[i].code /\ Callback(q))
                  => resp'.params.code # auth_codes[i].code]_vars

\* C28: a callback whose state names a session that has expired is
\* answered 400 "Invalid or expired state": the upstream code is not stored
\* and the client is not redirected with a code.
C28_ExpiredCallbackRejected ==
    [][resp'.endpoint = "callback" =>
       \A q \in CallbackQueries :
          LET session == findByCode(auth_codes, q.state)
          IN  (/\ session # NoAuthCode
               /\ now >= session.expires_at
               /\ Callback(q))
              => /\ resp' = Json("callback", 400, "invalid_request",
                                 "Invalid or expired state")
                 /\ UNCHANGED auth_codes]_vars

-----------------------------------------------------------------------------
(* Properties of the sessions stored *)

\* what an authorization request needs for its session to be trusted
C29_Trusted(clientId, redirectUri, method, challenge) ==
    /\ \E i \in DOMAIN oauth_clients :
          /\ oauth_clients[i].client_id = clientId
          /\ redirectUri \in Range(oauth_clients[i].redirect_uris)
    /\ method = "S256"
    /\ Len(challenge) = 43
    /\ Chars(challenge) \subseteq (Upper \cup Lower \cup Digit \cup {"-", "_"})

\* C29: every session stored has the client_id of a registered client, a
\* redirect_uri among that client's registered ones, the method S256 (also
\* when the request named none) and a code_challenge of 43 base64url
\* characters; an authorization request that fails one of these creates no
\* session.
C29_SessionsTrusted ==
    /\ [](\A i \in DOMAIN auth_codes :
             C29_Trusted(auth_codes[i].client_id, auth_codes[i].redirect_uri,
                         auth_codes[i].code_challenge_method,
                         auth_codes[i].code_challenge))
    /\ [][Len(auth_codes') > Len(auth_codes) =>
          \A q \in AuthorizeQueries :
             Authorize(q)
             => /\ q.response_type = "code"
                /\ C29_Trusted(q.client_id, q.redirect_uri,
                       IF q.code_challenge_method = ""
                       THEN "S256" ELSE q.code_challenge_method,
                       q.code_challenge)
                /\ auth_codes'[Len(auth_codes')].client_id = q.client_id
                /\ auth_codes'[Len(auth_codes')].redirect_uri = q.redirect_uri
                /\ auth_codes'[Len(auth_codes')].code_challenge
                       = q.code_challenge]_vars

\* a session was created for a request that named no method, and requests
\* with an unregistered redirect_uri are among those the handler has refused
C29_Witness ==
    /\ Len(auth_codes) > 0
    /\ auth_codes[1].code_challenge_method = "S256"
    /\ resp = Json("authorize", 400, "invalid_request",
                   "redirect_uri does not match registered URIs")

-----------------------------------------------------------------------------
(* Properties of the requests to the upstream token endpoint *)

\* the awaits of a request to the upstream token endpoint
C30_Awaits == {"exchange", "refresh", "ensure"}

\* C30: a failure of the upstream is never retried: a token request and a
\* check of the freshness guard each send at most one request to the
\* upstream token endpoint, with the upstream code of the session or the
\* upstream refresh token of the row, and a handler whose request has failed
\* ends without a new one.
C30_NoRetry ==
    /\ [](\A r \in DOMAIN reqs :
             /\ reqs[r].sent <= 1
             /\ reqs[r].pc \in C30_Awaits => reqs[r].sent = 1)
    /\ [][/\ Len(reqs') <= Len(reqs) + 1
          /\ \A r \in DOMAIN reqs :
                /\ reqs'[r].sent = reqs[r].sent
                /\ reqs'[r].pc \in C30_Awaits
                   => /\ reqs'[r].pc = reqs[r].pc
                      /\ reqs'[r].authCode.freee_code
                             = reqs[r].authCode.freee_code
                      /\ reqs'[r].existingToken.freee_refresh_token
                             = reqs[r].existingToken.freee_refresh_token
                /\ \A e \in McpFreeeExpiresIn :
                      (\/ ExchangeReply(r, FALSE, e)
                       \/ RefreshReply(r, FALSE, e)
                       \/ McpRefreshReply(r, FALSE, e))
                      => /\ reqs'[r].pc = "done"
                         /\ freeeSeq' = freeeSeq]_vars

\* a call of /mcp whose refresh the upstream refused has ended after one
\* request, with no request to the API
C30_Witness ==
    \E r \in DOMAIN reqs :
        /\ reqs[r].grant = "mcp"
        /\ reqs[r].pc = "done"
        /\ reqs[r].sent = 1
        /\ reqs[r].authorization = ""
        /\ resp.handler = r

-----------------------------------------------------------------------------
(* Properties of the redirect_uri check *)

\* the authorization requests, right in everything else, whose redirect_uri
\* adds a path, a trailing slash or a query to the registered one
C31_Lookalikes ==
    [response_type : {"code"},
     client_id : ClientIds,
     redirect_uri : {OtherUri, TrailingSlashUri, QueryUri},
     scope : {""},
     state : {"xyz"},
     code_challenge : {Challenge},
     code_challenge_method : {"", "S256"}]

\* C31: validateRedirectUri(client, uri) holds exactly when uri is equal,
\* as a string, to one of the client's registered redirect URIs; at
\* authorize a URI that only begins with a registered one, or adds a path,
\* a query or a trailing slash to it, is refused and creates no session.
C31_ExactRedirectUri ==
    /\ [](\A i \in DOMAIN oauth_clients : \A uri \in Uris :
             validateRedirectUri(oauth_clients[i], uri)
             <=> uri \in Range(oauth_clients[i].redirect_uris))
    /\ [][/\ Len(auth_codes') > Len(auth_codes)
             => \A q \in AuthorizeQueries :
                   Authorize(q)
                   => q.redirect_uri \in
                         Range(findByClientId(oauth_clients,
                                              q.client_id).redirect_uris)
          /\ \/ /\ UNCHANGED auth_codes
                /\ resp' = Json("authorize", 400, "invalid_request",
                       "redirect_uri does not match registered URIs")
             \/ \A q \in C31_Lookalikes :
                   LET client == findByClientId(oauth_clients, q.client_id)
                   IN  ~(/\ client # NoClient
                         /\ q.redirect_uri \notin Range(client.redirect_uris)
                         /\ Authorize(q))]_vars

\* a client has registered a redirect_uri, no session exists, and the
\* request answered last was refused for its redirect_uri
C31_Witness ==
    /\ \E i \in DOMAIN oauth_clients :
          HttpsUri \in Range(oauth_clients[i].redirect_uris)
    /\ Len(auth_codes) = 0
    /\ resp = Json("authorize", 400, "invalid_request",
                   "redirect_uri does not match registered URIs")

-----------------------------------------------------------------------------
(* Properties of the unexpected failures *)

\* C32: every request to POST /oauth/token gets exactly one response, and
\* when the signer or the store throws inside the authorization_code or the
\* refresh_token handler that response is 500 server_error.
C32_UnexpectedIs500 ==
    /\ [](\A r \in DOMAIN reqs :
             (reqs[r].grant \in {"authorization_code", "refresh_token"}
              /\ reqs[r].pc = "done")
             => reqs[r].response # NoTokenResponse)
    /\ [][\A r \in DOMAIN reqs : \A forwarded \in BOOLEAN :
             SignRejected(r, forwarded)
             => /\ resp'.status = 500
                /\ resp'.error = "server_error"
                /\ resp'.handler = r]_vars

-----------------------------------------------------------------------------
(* Properties of the refused authorization_code grants *)

\* the answers to a grant refused for its code, its client_id, its
\* redirect_uri or its code_verifier
C33_Refusals ==
    {"Invalid or expired authorization code",
     "Authorization code was not issued to this client",
     "redirect_uri does not match",
     "Invalid code_verifier"}

\* C33: an authorization_code grant refused because its code is unknown,
\* its client_id or redirect_uri is not the session's, or its code_verifier
\* fails PKCE, leaves every session as it was, used included, and the
\* request of the legitimate client that follows within the lifetime of the
\* code is taken on to the upstream exchange.
C33_RefusalLeavesSession ==
    [][\A q \in CodeGrants :
          LET authCode == findByCode(auth_codes, q[1].code)
              clientId == Or(q[1].client_id, q[2].client_id)
          IN  /\ (/\ Complete(q[1], q[2])
                  /\ \/ authCode = NoAuthCode
                     \/ authCode.client_id # clientId
                     \/ authCode.redirect_uri # q[1].redirect_uri
                     \/ computeS256Challenge(q[1].code_verifier)
                           # authCode.code_challenge
                  /\ Token(q[1], q[2]))
                 => /\ UNCHANGED <<auth_codes, reqs, tokens>>
                    /\ resp'.error = "invalid_grant"
                    /\ authCodeIsValid(authCode, now)
                       => resp'.error_description \in C33_Refusals
              /\ (/\ resp.error_description \in C33_Refusals
                  /\ Correct(q[1], q[2])
                  /\ authCodeIsValid(authCode, now)
                  /\ authCode.freee_code # ""
                  /\ Len(reqs) < MaxReqs
                  /\ Token(q[1], q[2]))
                 => /\ Len(reqs') = Len(reqs) + 1
                    /\ reqs'[Len(reqs')].pc = "exchange"
                    /\ reqs'[Len(reqs')].authCode.code = q[1].code
                    /\ findByCode(auth_codes', q[1].code).used = 1]_vars

\* after a request with another client_id was refused, the client of the
\* session has presented the code and its exchange is under way
C33_Witness ==
    \E r \in DOMAIN reqs :
        /\ reqs[r].grant = "authorization_code"
        /\ reqs[r].pc = "exchange"
        /\ resp.error_description
               = "Authorization code was not issued to this client"
        /\ resp.credential = reqs[r].authCode.code

-----------------------------------------------------------------------------
(* Properties of the issuance of tokens *)

\* C34: the authorization_code grant creates a row of tokens only for a
\* session on which a callback has stored an upstream code, only once the
\* session has been marked used, and only after the upstream has exchanged
\* that code: the row carries the pair the upstream returned.
C34_IssuedAfterExchange ==
    [][Len(tokens') > Len(tokens) =>
       \E r \in DOMAIN reqs :
          LET h == reqs[r]
              session == findByCode(auth_codes, h.authCode.code)
              token == tokens'[Len(tokens')]
          IN  /\ h.pc = "sign" /\ reqs'[r].pc = "done"
              /\ reqs'[r].response.status = 200
              /\ Len(tokens') = Len(tokens) + 1
              /\ h.grant = "authorization_code"
                 => /\ session # NoAuthCode
                    /\ session.freee_code # ""
                    /\ h.authCode.freee_code # ""
                    /\ session.used = 1
                    /\ h.freeeTokens # NoFreeeTokens
                    /\ token.freee_access_token = h.freeeTokens.access_token
                    /\ token.freee_refresh_token
                           = h.freeeTokens.refresh_token]_vars

\* a token has been issued for a session that holds an upstream code and is
\* marked used
C34_Witness ==
    \E r \in DOMAIN reqs : \E i \in DOMAIN tokens :
        /\ reqs[r].grant = "authorization_code"
        /\ reqs[r].pc = "done"
        /\ reqs[r].response.status = 200
        /\ tokens[i].access_token = reqs[r].accessToken
        /\ tokens[i].freee_access_token = reqs[r].freeeTokens.access_token
        /\ findByCode(auth_codes, reqs[r].authCode.code).used = 1
        /\ findByCode(auth_codes, reqs[r].authCode.code).freee_code # ""

\* the upstream exchange of this code has failed
C35_FailedExchange(code) ==
    \E r \in Exchanging(code) :
        /\ reqs[r].pc = "done"
        /\ reqs[r].response.error_description
               = "Failed to exchange authorization code with freee"

\* C35: the session is marked used before the upstream exchange is sent,
\* so a failed exchange consumes the code: every token request that
\* presents the code afterwards is refused, with invalid_grant when it
\* carries all required parameters, and the upstream code of the session
\* is not sent upstream again.
C35_FailedExchangeConsumes ==
    /\ [](\A i \in DOMAIN auth_codes :
             /\ Exchanging(auth_codes[i].code) # {} => auth_codes[i].used = 1
             /\ Cardinality(Exchanging(auth_codes[i].code)) <= 1)
    /\ [][\A q \in CodeGrants :
             (C35_FailedExchange(q[1].code) /\ Token(q[1], q[2]))
             => /\ resp'.status = 400
                /\ Complete(q[1], q[2]) => resp'.error = "invalid_grant"
                /\ UNCHANGED <<auth_codes, reqs, tokens, freeeSeq>>]_vars

\* the exchange of a code has failed, and the code presented again by its
\* client within its lifetime has been refused
C35_Witness ==
    \E i \in DOMAIN auth_codes :
        /\ C35_FailedExchange(auth_codes[i].code)
        /\ now < auth_codes[i].expires_at
        /\ tokens = <<>>
        /\ resp = [Json("token", 400, "invalid_grant",
                        "Authorization code has expired or already been used")
                      EXCEPT !.credential = auth_codes[i].code]

-----------------------------------------------------------------------------
(* Properties of the bearer tokens of POST /mcp *)

\* C36: POST /mcp accepts a bearer token only when a row of tokens holds
\* that access token, is not revoked and expires later than now; and once a
\* refresh_token grant for a row has succeeded, or its upstream refresh has
\* failed, every request to /mcp with the access token of that row is
\* answered 401.
C36_BearerAccepted ==
    [][\A request \in McpRequests :
          LET jwt == request.authorization.jwt
          IN  Mcp(request)
              => /\ (resp'.status # 401 \/ Len(reqs') > Len(reqs))
                    => \E i \in DOMAIN tokens :
                          /\ request.authorization # NoBearer
                          /\ tokens[i].access_token = jwt
                          /\ tokens[i].revoked = 0
                          /\ tokens[i].expires_at > now
                 /\ (/\ request.authorization # NoBearer
                     /\ \E i \in DOMAIN tokens :
                           /\ tokens[i].access_token = jwt
                           /\ \/ Refreshed(tokens[i].id)
                              \/ FailedRefresh(tokens[i].id))
                    => /\ resp'.status = 401
                       /\ reqs' = reqs]_vars

-----------------------------------------------------------------------------
(* Properties of the client_secret *)

\* reqs2 with the request of the handler just suspended replaced by body
C37_Swap(reqs2, body) ==
    IF Len(reqs2) > Len(reqs)
    THEN [reqs2 EXCEPT ![Len(reqs2)] = [@ EXCEPT !.body = body]]
    ELSE reqs2

\* C37: the response to a request to POST /oauth/token and what it changes
\* do not depend on the client_secret of its body or of its Basic header:
\* whatever a request does, the request that differs from it only in
\* client_secret does the same from the same state.
C37_SecretIgnored ==
    [][\A q \in SecretTokenRequests :
          Token(q[1], q[2])
          => \A s, t \in Secrets :
                LET body2 == [q[1] EXCEPT !.client_secret = s]
                    basic2 == IF q[2] = NoBasic THEN NoBasic
                              ELSE [q[2] EXCEPT !.client_secret = t]
                IN  tokenRouter(body2, basic2, resp', auth_codes',
                                C37_Swap(reqs', body2))]_vars

\* a request that carried a secret other than the client's has been
\* answered with tokens
C37_Witness ==
    \E r \in DOMAIN reqs :
        /\ reqs[r].body.client_secret = "s3cret"
        /\ reqs[r].pc = "done"
        /\ reqs[r].response.status = 200
        /\ resp.handler = r

-----------------------------------------------------------------------------
(* Properties of the successor of a refresh_token grant *)

\* C38: the row a refresh_token grant creates has the client_id, user_id,
\* company_id and scope of the row whose refresh token was presented, and
\* its upstream credentials are the pair that the upstream returned to
\* that grant, a pair no row held before.
C38_SuccessorInherits ==
    [][\A r \in DOMAIN reqs :
          RefreshSigned(r)
          => LET h == reqs[r]
                 new == tokens'[Len(tokens')]
             IN  /\ Len(tokens') = Len(tokens) + 1
                 /\ h.freeeTokens # NoFreeeTokens
                 /\ \E i \in DOMAIN tokens :
                       /\ tokens[i].id = h.existingToken.id
                       /\ tokens[i].refresh_token = h.body.refresh_token
                       /\ new.client_id = tokens[i].client_id
                       /\ new.user_id = tokens[i].user_id
                       /\ new.company_id = tokens[i].company_id
                       /\ new.scope = tokens[i].scope
                 /\ new.freee_access_token = h.freeeTokens.access_token
                 /\ new.freee_refresh_token = h.freeeTokens.refresh_token
                 /\ new.freee_token_expires_at
                        = h.freeeTokens.created_at + h.freeeTokens.expires_in
                 /\ \A i \in DOMAIN tokens :
                       tokens[i].freee_access_token
                           # new.freee_access_token]_vars

\* a session of scope "read" has been exchanged and its token refreshed:
\* the successor is live and has that scope
C38_Witness ==
    \E i, j \in DOMAIN tokens :
        /\ i < j
        /\ tokens[i].revoked = 1 /\ tokens[j].revoked = 0
        /\ Refreshed(tokens[i].id)
        /\ tokens[i].scope = "read" /\ tokens[j].scope = "read"
        /\ tokens[j].freee_access_token # tokens[i].freee_access_token

-----------------------------------------------------------------------------
(* Properties of a failed refresh in the freshness guard *)

\* C39: when the refresh that the freshness guard awaits fails, the call
\* of /mcp ends with the error of the tool and no request to the API, no
\* row of the token table changes (none is revoked), and a bearer token
\* that /mcp accepted for the row before the failure is accepted after it.
C39_GuardFailureKeepsRow ==
    [][\A r \in DOMAIN reqs :
          (/\ reqs[r].grant = "mcp"
           /\ reqs[r].pc = "ensure"
           /\ reqs'[r].pc = "done")
          => LET h == reqs[r]
                 bearer == Bearer(h.accessToken, jwtSecretKey)
                 accepted(table, t) ==
                     /\ jwtVerify(bearer, t)
                     /\ findByAccessToken(table, bearer.jwt) # NoToken
                     /\ tokenIsValid(findByAccessToken(table, bearer.jwt), t)
             IN  /\ tokens' = tokens
                 /\ freeeSeq' = freeeSeq
                 /\ reqs'[r].authorization = ""
                 /\ reqs'[r].sent = 1
                 /\ resp'.handler = r
                 /\ resp'.status = 200
                 /\ resp'.error = "-32603"
                 /\ \A i \in DOMAIN tokens :
                       (tokens[i].id = h.existingToken.id
                           /\ tokens[i].revoked = 0)
                       => tokens'[i].revoked = 0
                 /\ accepted(tokens, now) => accepted(tokens', now')]_vars

\* the guard's refresh has failed for a call of /mcp, and a later call
\* with the token of the same row has been answered with a result
C39_Witness ==
    \E r \in DOMAIN reqs :
        /\ reqs[r].grant = "mcp"
        /\ reqs[r].pc = "done"
        /\ reqs[r].sent = 1
        /\ reqs[r].authorization = ""
        /\ resp.endpoint = "mcp"
        /\ resp.status = 200
        /\ resp.error = ""
        /\ resp.handler = 0
        /\ resp.credential = reqs[r].existingToken.id
        /\ \E i \in DOMAIN tokens :
              /\ tokens[i].id = reqs[r].existingToken.id
              /\ tokens[i].revoked = 0
              /\ tokens[i].access_token = reqs[r].accessToken

====
